---- MODULE Spec2Model ----
(***************************************************************************)
(* Model of the Telegram customer-service relay bot: the dispatcher        *)
(* (package main), the broadcast builder (internal/broadcast), the welcome *)
(* editor (package welcome) and the Redis-backed user directory            *)
(* (internal/cache).                                                       *)
(*                                                                         *)
(* Strings are sequences of one-character strings, so that Split,          *)
(* TrimSpace, Trim, HasPrefix, FormatInt and ParseInt are computed the way *)
(* the Go code computes them.                                              *)
(***************************************************************************)
EXTENDS Integers, Sequences, FiniteSets, TLC

\* ------------------------------------------------------------------------
\* Bounds of the model
\* ------------------------------------------------------------------------

\* number of ordinary (non-admin) users that can write to the bot
NumUsers == 1

\* number of fan-out goroutines that may be in flight at once
MaxFanouts == 1

\* number of builder menus the bot may send (message ids are 1..MaxMenus)
MaxMenus == 2

\* size of the largest block set that is listed
MaxBlocked == 21

\* number of lines of the longest button spec that is stored and parsed
MaxLines == 3

\* ------------------------------------------------------------------------
\* Program constants
\* ------------------------------------------------------------------------

StateNone == 0
StateBroadcastAwaitText == 10
StateBroadcastAwaitMedia == 11
StateBroadcastAwaitButtons == 12
StateAwaitingWelcomeMessage == 20
StateAwaitingWelcomeButtons == 21

\* ------------------------------------------------------------------------
\* Identities
\* ------------------------------------------------------------------------

\* the administrator (ADMIN_IDS), a private chat has the id of its user
AdminID == 7

adminIDs == {AdminID}

\* ordinary users: 14, 21, ...
UserIDs == {AdminID * (k + 1) : k \in 1..NumUsers}

\* FORWARD_TO_ADMIN_ID: the group the bot relays user messages into
forwardToAdminID == 0 - 5

isAdmin(userID) == userID \in adminIDs

\* ------------------------------------------------------------------------
\* strings, strconv
\* ------------------------------------------------------------------------

Digits == <<"0", "1", "2", "3", "4", "5", "6", "7", "8", "9">>

DigitValue(c) == (CHOOSE d \in 1..10 : Digits[d] = c) - 1

IsDigit(c) == \E d \in 1..10 : Digits[d] = c

RECURSIVE FormatNat(_)
FormatNat(n) ==
  IF n < 10 THEN <<Digits[n + 1]>>
  ELSE FormatNat(n \div 10) \o <<Digits[(n % 10) + 1]>>

\* strconv.FormatInt(n, 10)
FormatInt(n) == IF n < 0 THEN <<"-">> \o FormatNat(0 - n) ELSE FormatNat(n)

RECURSIVE DigitsValue(_, _)
DigitsValue(s, acc) ==
  IF s = <<>> THEN acc
  ELSE DigitsValue(Tail(s), acc * 10 + DigitValue(Head(s)))

AllDigits(s) == s # <<>> /\ \A k \in 1..Len(s) : IsDigit(s[k])

\* strconv.ParseInt(s, 10, 64): the value, and 0 when s is not a number
\* (every caller drops the error and tests the value against 0)
ParseInt(s) ==
  IF s # <<>> /\ Head(s) \in {"-", "+"}
  THEN IF AllDigits(Tail(s))
       THEN (IF Head(s) = "-" THEN 0 - DigitsValue(Tail(s), 0)
             ELSE DigitsValue(Tail(s), 0))
       ELSE 0
  ELSE IF AllDigits(s) THEN DigitsValue(s, 0) ELSE 0

\* unicode.IsSpace on the characters that occur
SpaceChars == {" ", "\t", "\r", "\n"}

RECURSIVE TrimLeft(_, _)
TrimLeft(s, cutset) ==
  IF s # <<>> /\ Head(s) \in cutset THEN TrimLeft(Tail(s), cutset) ELSE s

RECURSIVE TrimRight(_, _)
TrimRight(s, cutset) ==
  IF s # <<>> /\ s[Len(s)] \in cutset
  THEN TrimRight(SubSeq(s, 1, Len(s) - 1), cutset)
  ELSE s

\* strings.Trim(s, cutset)
Trim(s, cutset) == TrimRight(TrimLeft(s, cutset), cutset)

\* strings.TrimSpace
TrimSpace(s) == Trim(s, SpaceChars)

\* the backquote character (written as an apostrophe here)
Backtick == "'"

\* strings.HasPrefix
HasPrefix(s, p) == Len(s) >= Len(p) /\ SubSeq(s, 1, Len(p)) = p

\* index of the first occurrence of character c in s, 0 when absent
IndexOf(s, c) ==
  IF \E k \in 1..Len(s) : s[k] = c
  THEN CHOOSE k \in 1..Len(s) : s[k] = c /\ \A j \in 1..(k - 1) : s[j] # c
  ELSE 0

RECURSIVE Split(_, _)
\* strings.Split(s, sep) for a one-character separator
Split(s, sep) ==
  LET k == IndexOf(s, sep)
  IN IF k = 0 THEN <<s>>
     ELSE <<SubSeq(s, 1, k - 1)>> \o Split(SubSeq(s, k + 1, Len(s)), sep)

\* strings.SplitN(s, "|", 2)
SplitN2(s) ==
  LET k == IndexOf(s, "|")
  IN IF k = 0 THEN <<s>>
     ELSE <<SubSeq(s, 1, k - 1), SubSeq(s, k + 1, Len(s))>>

RECURSIVE Join(_, _)
\* strings.Join(lines, sep)
Join(lines, sep) ==
  IF lines = <<>> THEN <<>>
  ELSE IF Len(lines) = 1 THEN lines[1]
  ELSE lines[1] \o <<sep>> \o Join(Tail(lines), sep)

HTTP == <<"h", "t", "t", "p", ":", "/", "/">>
HTTPS == <<"h", "t", "t", "p", "s", ":", "/", "/">>

\* ------------------------------------------------------------------------
\* Go maps: a function whose domain is the set of keys present
\* ------------------------------------------------------------------------

MapHas(m, k) == k \in DOMAIN m

\* m[k], the zero value when the key is absent
MapGet(m, k, zero) == IF k \in DOMAIN m THEN m[k] ELSE zero

\* m[k] = v
MapSet(m, k, v) == [x \in (DOMAIN m) \cup {k} |-> IF x = k THEN v ELSE m[x]]

\* delete(m, k)
MapDelete(m, k) == [x \in (DOMAIN m) \ {k} |-> m[x]]

\* ------------------------------------------------------------------------
\* internal/broadcast: the draft and the button parser
\* ------------------------------------------------------------------------

\* broadcast.Message{}: the zero value of a draft
Message == [Text |-> <<>>, MediaID |-> "", Type |-> "", Buttons |-> <<>>]

\* tgbotapi.NewInlineKeyboardButtonURL
NewInlineKeyboardButtonURL(text, url) == [Text |-> text, URL |-> url]

RECURSIVE ParseButtonLines(_)
\* the first loop of ParseButtons: one button per non-blank line that splits
\* into two parts on the first "|"
ParseButtonLines(lines) ==
  IF lines = <<>> THEN <<>>
  ELSE LET line == TrimSpace(Head(lines))
           parts == SplitN2(line)
           rest == ParseButtonLines(Tail(lines))
       IN IF line = <<>> THEN rest
          ELSE IF Len(parts) = 2
          THEN <<NewInlineKeyboardButtonURL(
                   TrimSpace(parts[1]),
                   Trim(TrimSpace(parts[2]), {Backtick}))>> \o rest
          ELSE rest

RECURSIVE PackRows(_)
\* the second loop of ParseButtons: two buttons per row, in order
PackRows(buttons) ==
  IF buttons = <<>> THEN <<>>
  ELSE IF Len(buttons) = 1 THEN <<(<<buttons[1]>>)>>
  ELSE <<(<<buttons[1], buttons[2]>>)>> \o PackRows(SubSeq(buttons, 3, Len(buttons)))

\* a ParseButtons that gives every button a row of its own
ParseButtonsSingly(data) ==
  LET buttons == ParseButtonLines(Split(data, "\n"))
  IN [k \in 1..Len(buttons) |-> <<buttons[k]>>]

\* broadcast.ParseButtons: the InlineKeyboard rows of the markup
ParseButtons(data) == PackRows(ParseButtonLines(Split(data, "\n")))

\* the verdict of the validation loop of HandleMessageInput
NoError == [what |-> "ok", line |-> 0, content |-> <<>>]

\* a URL test that accepts every scheme
ValidURLAnyScheme(url) == url = url

\* the URL test of the validation loop: the scheme of the trimmed URL
ValidURL(url) == HasPrefix(url, HTTP) \/ HasPrefix(url, HTTPS)

\* a line of the button spec is refused for its format
BadFormat(parts) ==
  Len(parts) # 2 \/ TrimSpace(parts[1]) = <<>> \/ TrimSpace(parts[2]) = <<>>

RECURSIVE ValidateButtonLines(_, _)
\* the validation loop of the AwaitButtons case, from line i on: the first
\* refused line with its 1-based number and the text the error names
ValidateButtonLines(lines, i) ==
  IF i > Len(lines) THEN NoError
  ELSE LET line == TrimSpace(lines[i])
           parts == SplitN2(line)
       IN IF line = <<>> THEN ValidateButtonLines(lines, i + 1)
          ELSE IF BadFormat(parts)
          THEN [what |-> "ButtonFormatError", line |-> i, content |-> line]
          ELSE LET url == Trim(TrimSpace(parts[2]), {Backtick})
               IN IF ~ValidURL(url)
                  THEN [what |-> "ButtonURLError", line |-> i, content |-> url]
                  ELSE ValidateButtonLines(lines, i + 1)

\* ------------------------------------------------------------------------
\* State
\* ------------------------------------------------------------------------

VARIABLES
  AdminStates,                \* BotInstance.adminStates, shared by both managers
  Broadcasts,                 \* broadcast.Manager.Broadcasts
  BroadcastPromptMessageIDs,  \* broadcast.Manager.BroadcastPromptMessageIDs
  menus,                      \* builder menus sent to a chat and not deleted
  users,                      \* Redis set "telegram_bot_users" (strings)
  blockedUsers,               \* Redis set "blocked_users" (strings)
  config,                     \* Redis strings config:welcome_message/_buttons
  fanouts,                    \* the goroutines started by executeBroadcast
  sent,                       \* what the last update made the bot send
  ev                          \* the last update handled, and how it was routed

vars == <<AdminStates, Broadcasts, BroadcastPromptMessageIDs, menus, users,
          blockedUsers, config, fanouts, sent, ev>>

\* the members of a set of id strings, smallest id first
Ascending(set) ==
  LET RECURSIVE Members(_)
      Members(rest) ==
        IF rest = {} THEN <<>>
        ELSE LET x == CHOOSE y \in rest : TRUE
             IN <<x>> \o Members(rest \ {x})
  IN SortSeq(Members(set), LAMBDA a, b : ParseInt(a) < ParseInt(b))

Reverse(seq) == [k \in 1..Len(seq) |-> seq[Len(seq) + 1 - k]]

\* the orders in which SMembers is taken to return the members of a set
Orders == {"ascending", "descending"}

\* rdb.SMembers(key).Result() when it succeeds
SMembers(set, order) ==
  IF order = "ascending" THEN Ascending(set) ELSE Reverse(Ascending(set))

\* ------------------------------------------------------------------------
\* What a handler works on: the in-memory maps, the store and the transport
\* ------------------------------------------------------------------------

\* the state a handler starts from, with nothing sent yet
World ==
  [AdminStates |-> AdminStates,
   Broadcasts |-> Broadcasts,
   BroadcastPromptMessageIDs |-> BroadcastPromptMessageIDs,
   menus |-> menus,
   users |-> users,
   blockedUsers |-> blockedUsers,
   config |-> config,
   sent |-> <<>>,
   usersRead |-> FALSE,
   spawned |-> <<>>,
   overflow |-> FALSE,
   route |-> ""]

\* a message handed to API.Send
Out(to, what) ==
  [line |-> 0, what |-> what, content |-> <<>>, to |-> to, payload |-> Message]

\* m.API.Send(msg)
Send(w, msg) == [w EXCEPT !.sent = Append(@, msg)]

\* m.API.Request(tgbotapi.NewDeleteMessage(chatID, messageID))
DeleteMessage(w, chatID, messageID) ==
  [w EXCEPT !.menus = {m \in @ : ~(m.chat = chatID /\ m.id = messageID)}]

\* the message id Telegram gives the next menu of a chat: one that no
\* undeleted menu of the chat carries and that the chat's handle does not hold
NewMessageID(w, chatID) ==
  LET used == {m.id : m \in {x \in w.menus : x.chat = chatID}}
                \cup {MapGet(w.BroadcastPromptMessageIDs, chatID, 0)}
  IN CHOOSE n \in 1..(MaxMenus + 2) :
       n \notin used /\ \A k \in 1..(n - 1) : k \in used

\* ------------------------------------------------------------------------
\* internal/broadcast: Manager
\* ------------------------------------------------------------------------

\* the content test shared by the menu, the preview and the send
HasContent(broadcast) == broadcast.Text # <<>> \/ broadcast.MediaID # ""

\* StartBroadcastBuilder, were it to go on with a draft that exists
StartBroadcastBuilderKeepsDraft(w, chatID) ==
  Send([w EXCEPT !.Broadcasts =
                   MapSet(@, chatID, MapGet(w.Broadcasts, chatID, Message)),
                 !.AdminStates = MapSet(@, chatID, StateBroadcastAwaitText)],
       Out(chatID, "PromptText"))

StartBroadcastBuilder(w, chatID) ==
  Send([w EXCEPT !.Broadcasts = MapSet(@, chatID, Message),
                 !.AdminStates = MapSet(@, chatID, StateBroadcastAwaitText)],
       Out(chatID, "PromptText"))

\* sendOk: whether API.Send of the menu succeeds
sendBroadcastBuilderMenu(w, chatID, sendOk) ==
  LET broadcast == MapGet(w.Broadcasts, chatID, Message)
      old == MapGet(w.BroadcastPromptMessageIDs, chatID, 0)
      w1 == IF old # 0 THEN DeleteMessage(w, chatID, old) ELSE w
      room == Cardinality({m \in w1.menus : m.chat = chatID}) < MaxMenus
      id == NewMessageID(w1, chatID)
      w2 == Send(w1, [Out(chatID, "BuilderMenu") EXCEPT !.payload = broadcast])
  IN IF ~sendOk THEN w2
     ELSE IF ~room THEN [w2 EXCEPT !.overflow = TRUE]
     ELSE [w2 EXCEPT
             !.menus = @ \cup {[chat |-> chatID, id |-> id]},
             !.BroadcastPromptMessageIDs = MapSet(@, chatID, id)]

\* sendComplexMessage: what is handed to API.Send for one recipient, if
\* anything
ComplexMessage(chatID, broadcast) ==
  IF broadcast.MediaID # ""
  THEN IF broadcast.Type \in {"photo", "video"}
       THEN <<[Out(chatID, "Broadcast") EXCEPT !.payload = broadcast]>>
       ELSE <<>>
  ELSE IF broadcast.Text # <<>>
  THEN <<[Out(chatID, "Broadcast") EXCEPT !.payload = broadcast]>>
  ELSE <<>>

\* sendComplexMessage: its boolean result; outcome is what API.Send returns
\* ("ok", "blocked": bot was blocked by the user, "error": anything else)
ComplexMessageOK(chatID, broadcast, outcome) ==
  IF broadcast.MediaID # ""
  THEN IF broadcast.Type \in {"photo", "video"} THEN outcome = "ok" ELSE FALSE
  ELSE IF broadcast.Text # <<>> THEN outcome = "ok"
  ELSE TRUE

sendBroadcastPreview(w, chatID) ==
  LET broadcast == MapGet(w.Broadcasts, chatID, Message)
  IN IF broadcast.Text = <<>> /\ broadcast.MediaID = ""
     THEN Send(w, Out(chatID, "PreviewEmpty"))
     ELSE LET w1 == Send(w, Out(chatID, "PreviewHeader"))
          IN [w1 EXCEPT !.sent = @ \o ComplexMessage(chatID, broadcast)]

\* RedisClient.GetAllUserIDs when it succeeds
GetAllUserIDs(w, order) == SMembers(w.users, order)

\* the loop run by the caller instead of a goroutine: it has delivered to
\* every recipient and sent the summary when executeBroadcast returns
GoroutineInline(w, chatID, broadcast, allUserIDsStr) ==
  [pc |-> "done", chatID |-> chatID, broadcast |-> broadcast,
   allUserIDsStr |-> allUserIDsStr, i |-> Len(allUserIDsStr) + 1,
   count |-> Len(allUserIDsStr), failed |-> 0,
   attempted |-> [k \in 1..Len(allUserIDsStr) |-> ParseInt(allUserIDsStr[k])],
   summaries |-> <<[to |-> chatID, count |-> Len(allUserIDsStr)]>>,
   atRead |-> [users |-> w.users, blockedUsers |-> w.blockedUsers]]

\* the goroutine of executeBroadcast as it starts: the variables it
\* captures, what it has done so far (attempted, the number of failed
\* sends, summaries), and the two store sets as they were when the slice
\* was read (atRead)
Goroutine(w, chatID, broadcast, allUserIDsStr) ==
  [pc |-> "loop", chatID |-> chatID, broadcast |-> broadcast,
   allUserIDsStr |-> allUserIDsStr, i |-> 1, count |-> 0, failed |-> 0,
   attempted |-> <<>>, summaries |-> <<>>,
   atRead |-> [users |-> w.users, blockedUsers |-> w.blockedUsers]]

\* executeBroadcast without its test of the draft's content
executeBroadcastNoEmptyCheck(w, chatID, usersReadOk, order) ==
  LET broadcast == MapGet(w.Broadcasts, chatID, Message)
      w1 == [w EXCEPT !.usersRead = TRUE]
  IN IF ~usersReadOk
     THEN Send(w1, Out(chatID, "BroadcastFailed"))
     ELSE [w1 EXCEPT
             !.spawned = <<Goroutine(w, chatID, broadcast,
                                     GetAllUserIDs(w, order))>>]

\* usersReadOk, order: whether GetAllUserIDs succeeds, and the order of
\* the slice it returns
executeBroadcast(w, chatID, usersReadOk, order) ==
  LET broadcast == MapGet(w.Broadcasts, chatID, Message)
  IN IF broadcast.Text = <<>> /\ broadcast.MediaID = ""
     THEN Send(w, Out(chatID, "SendEmpty"))
     ELSE LET w1 == [w EXCEPT !.usersRead = TRUE]
          IN IF ~usersReadOk
             THEN Send(w1, Out(chatID, "BroadcastFailed"))
             ELSE [w1 EXCEPT
                     !.spawned = <<Goroutine(w, chatID, broadcast,
                                             GetAllUserIDs(w, order))>>]

\* callback payloads; a word of the payload is one token, "_" separates
BBuildPrefix == <<"bbuild", "_">>
\* the payload "bbuild_" + action of a button of the builder
BBuild(action) == BBuildPrefix \o action

\* what a handler hands back: whether it claimed the update, and the state
Result(handled, w) == [handled |-> handled, w |-> w]

\* case "bbuild_set_text"
CallbackSetText(w, chatID) ==
  Send([w EXCEPT !.AdminStates = MapSet(@, chatID, StateBroadcastAwaitText)],
       Out(chatID, "PromptText"))

\* case "bbuild_set_media"
CallbackSetMedia(w, chatID) ==
  Send([w EXCEPT !.AdminStates = MapSet(@, chatID, StateBroadcastAwaitMedia)],
       Out(chatID, "PromptMedia"))

\* a Skip of the media that empties the reference and keeps the kind
CallbackSkipMediaKeepsType(w, chatID) ==
  LET currentBroadcast ==
        [MapGet(w.Broadcasts, chatID, Message) EXCEPT !.MediaID = ""]
  IN Send([w EXCEPT
             !.Broadcasts = MapSet(@, chatID, currentBroadcast),
             !.AdminStates = MapSet(@, chatID, StateBroadcastAwaitButtons)],
          Out(chatID, "PromptButtons"))

\* case "bbuild_skip_media"
CallbackSkipMedia(w, chatID) ==
  LET currentBroadcast ==
        [MapGet(w.Broadcasts, chatID, Message) EXCEPT !.MediaID = "", !.Type = ""]
  IN Send([w EXCEPT
             !.Broadcasts = MapSet(@, chatID, currentBroadcast),
             !.AdminStates = MapSet(@, chatID, StateBroadcastAwaitButtons)],
          Out(chatID, "PromptButtons"))

\* case "bbuild_set_buttons"
CallbackSetButtons(w, chatID) ==
  Send([w EXCEPT !.AdminStates = MapSet(@, chatID, StateBroadcastAwaitButtons)],
       Out(chatID, "PromptButtons"))

\* case "bbuild_skip_buttons"
CallbackSkipButtons(w, chatID, sendOk) ==
  LET currentBroadcast ==
        [MapGet(w.Broadcasts, chatID, Message) EXCEPT !.Buttons = <<>>]
  IN sendBroadcastBuilderMenu(
       [w EXCEPT !.Broadcasts = MapSet(@, chatID, currentBroadcast),
                 !.AdminStates = MapSet(@, chatID, StateNone)],
       chatID, sendOk)

\* a Cancel that clears the state and the handle and keeps the draft
CallbackCancelKeepsDraft(w, chatID, messageID) ==
  Send(DeleteMessage(
         [w EXCEPT
            !.AdminStates = MapSet(@, chatID, StateNone),
            !.BroadcastPromptMessageIDs = MapDelete(@, chatID)],
         chatID, messageID),
       Out(chatID, "Cancelled"))

\* case "bbuild_cancel"
CallbackCancel(w, chatID, messageID) ==
  Send(DeleteMessage(
         [w EXCEPT
            !.AdminStates = MapSet(@, chatID, StateNone),
            !.Broadcasts = MapDelete(@, chatID),
            !.BroadcastPromptMessageIDs = MapDelete(@, chatID)],
         chatID, messageID),
       Out(chatID, "Cancelled"))

\* a Send case that deletes the menu but keeps the draft and its handle
AfterExecuteBroadcastKeepsDraft(w, chatID, messageID) ==
  DeleteMessage([w EXCEPT !.AdminStates = MapSet(@, chatID, StateNone)],
                chatID, messageID)

\* case "bbuild_send": what follows the call of executeBroadcast
AfterExecuteBroadcast(w, chatID, messageID) ==
  DeleteMessage(
    [w EXCEPT
       !.AdminStates = MapSet(@, chatID, StateNone),
       !.Broadcasts = MapDelete(@, chatID),
       !.BroadcastPromptMessageIDs = MapDelete(@, chatID)],
    chatID, messageID)

\* broadcast.Manager.HandleCallbackQuery
HandleCallbackQuery(w, q, sendOk, usersReadOk, order) ==
  IF ~HasPrefix(q.Data, BBuildPrefix) THEN Result(FALSE, w)
  ELSE LET chatID == q.Chat
           action == SubSeq(q.Data, Len(BBuildPrefix) + 1, Len(q.Data))
       IN Result(TRUE,
            CASE action = <<"set", "_", "text">> -> CallbackSetText(w, chatID)
              [] action = <<"set", "_", "media">> -> CallbackSetMedia(w, chatID)
              [] action = <<"skip", "_", "media">> ->
                   CallbackSkipMedia(w, chatID)
              [] action = <<"set", "_", "buttons">> ->
                   CallbackSetButtons(w, chatID)
              [] action = <<"skip", "_", "buttons">> ->
                   CallbackSkipButtons(w, chatID, sendOk)
              [] action = <<"preview">> -> sendBroadcastPreview(w, chatID)
              [] action = <<"cancel">> ->
                   CallbackCancel(w, chatID, q.MessageID)
              [] action = <<"send">> ->
                   AfterExecuteBroadcast(
                     executeBroadcast(w, chatID, usersReadOk, order),
                     chatID, q.MessageID)
              [] OTHER -> w)

\* an AwaitText case that stores whatever text it is given and moves on
InputAwaitTextTakesEmpty(w, msg) ==
  LET chatID == msg.Chat
      currentBroadcast ==
        [MapGet(w.Broadcasts, chatID, Message) EXCEPT !.Text = msg.Text]
  IN Send([w EXCEPT
             !.Broadcasts = MapSet(@, chatID, currentBroadcast),
             !.AdminStates = MapSet(@, chatID, StateBroadcastAwaitMedia)],
          Out(chatID, "PromptMedia"))

\* case StateBroadcastAwaitText
InputAwaitText(w, msg) ==
  LET chatID == msg.Chat
      currentBroadcast ==
        [MapGet(w.Broadcasts, chatID, Message) EXCEPT !.Text = msg.Text]
  IN IF msg.Text = <<>> THEN Send(w, Out(chatID, "TextInvalid"))
     ELSE Send([w EXCEPT
                  !.Broadcasts = MapSet(@, chatID, currentBroadcast),
                  !.AdminStates = MapSet(@, chatID, StateBroadcastAwaitMedia)],
               Out(chatID, "PromptMedia"))

\* case StateBroadcastAwaitMedia, were a media to end the flow
InputAwaitMediaEndsFlow(w, msg) ==
  LET chatID == msg.Chat
      mediaID == IF msg.Photo # "" THEN msg.Photo ELSE msg.Video
      mediaType == IF msg.Photo # "" THEN "photo" ELSE "video"
      currentBroadcast ==
        [MapGet(w.Broadcasts, chatID, Message)
           EXCEPT !.MediaID = mediaID, !.Type = mediaType]
  IN IF msg.Photo = "" /\ msg.Video = ""
     THEN Send(w, Out(chatID, "MediaInvalid"))
     ELSE Send([w EXCEPT
                  !.Broadcasts = MapSet(@, chatID, currentBroadcast),
                  !.AdminStates = MapSet(@, chatID, StateNone)],
               Out(chatID, "PromptButtons"))

\* case StateBroadcastAwaitMedia
InputAwaitMedia(w, msg) ==
  LET chatID == msg.Chat
      mediaID == IF msg.Photo # "" THEN msg.Photo ELSE msg.Video
      mediaType == IF msg.Photo # "" THEN "photo" ELSE "video"
      currentBroadcast ==
        [MapGet(w.Broadcasts, chatID, Message)
           EXCEPT !.MediaID = mediaID, !.Type = mediaType]
  IN IF msg.Photo = "" /\ msg.Video = ""
     THEN Send(w, Out(chatID, "MediaInvalid"))
     ELSE Send([w EXCEPT
                  !.Broadcasts = MapSet(@, chatID, currentBroadcast),
                  !.AdminStates = MapSet(@, chatID, StateBroadcastAwaitButtons)],
               Out(chatID, "PromptButtons"))

\* the message that reports the first refused line of a button spec
ButtonError(chatID, verdict) ==
  [Out(chatID, verdict.what) EXCEPT
     !.line = verdict.line, !.content = verdict.content]

\* case StateBroadcastAwaitButtons
InputAwaitButtons(w, msg, sendOk) ==
  LET chatID == msg.Chat
      verdict == ValidateButtonLines(Split(msg.Text, "\n"), 1)
      currentBroadcast ==
        [MapGet(w.Broadcasts, chatID, Message)
           EXCEPT !.Buttons = ParseButtons(msg.Text)]
  IN IF verdict # NoError THEN Send(w, ButtonError(chatID, verdict))
     ELSE sendBroadcastBuilderMenu(
            [w EXCEPT !.Broadcasts = MapSet(@, chatID, currentBroadcast),
                      !.AdminStates = MapSet(@, chatID, StateNone)],
            chatID, sendOk)

\* broadcast.Manager.HandleMessageInput
HandleMessageInput(w, msg, sendOk) ==
  LET chatID == msg.Chat
      state == MapGet(w.AdminStates, chatID, 0)
  IN IF ~MapHas(w.AdminStates, chatID) THEN Result(FALSE, w)
     ELSE Result(TRUE,
            CASE state = StateBroadcastAwaitText -> InputAwaitText(w, msg)
              [] state = StateBroadcastAwaitMedia -> InputAwaitMedia(w, msg)
              [] state = StateBroadcastAwaitButtons ->
                   InputAwaitButtons(w, msg, sendOk)
              [] OTHER -> w)

\* ------------------------------------------------------------------------
\* package welcome: Manager
\* ------------------------------------------------------------------------

\* the built-in greeting used when no welcome text is stored
DefaultWelcome == <<"default-welcome">>

\* config as the store holds it when no key is set (GetConfigValue gives "")
NoConfig == [welcome_message |-> <<>>, welcome_buttons |-> <<>>]

HandleStartCommand(w, chatID) ==
  LET welcomeMsgText ==
        IF w.config.welcome_message = <<>> THEN DefaultWelcome
        ELSE w.config.welcome_message
      keyboard ==
        IF w.config.welcome_buttons # <<>>
        THEN ParseButtons(w.config.welcome_buttons) ELSE <<>>
  IN Send(w, [Out(chatID, "Welcome") EXCEPT
                !.content = welcomeMsgText,
                !.payload = [Message EXCEPT !.Buttons = keyboard]])

StartSetWelcomeProcess(w, chatID) ==
  [Send(w, [Out(chatID, "CurrentWelcome") EXCEPT
              !.content = w.config.welcome_message])
     EXCEPT !.AdminStates = MapSet(@, chatID, StateAwaitingWelcomeMessage)]

StartSetButtonsProcess(w, chatID) ==
  [Send(w, [Out(chatID, "CurrentButtons") EXCEPT
              !.content = w.config.welcome_buttons])
     EXCEPT !.AdminStates = MapSet(@, chatID, StateAwaitingWelcomeButtons)]

\* handleWelcomeMessageInput, were a failed write to end the flow
handleWelcomeMessageInputGivesUp(w, msg, configWriteOk) ==
  LET chatID == msg.Chat
  IN IF ~configWriteOk
     THEN Send([w EXCEPT !.AdminStates = MapSet(@, chatID, StateNone)],
               Out(chatID, "SaveWelcomeFailed"))
     ELSE HandleStartCommand(
            Send([w EXCEPT
                    !.config = [@ EXCEPT !.welcome_message = msg.Text],
                    !.AdminStates = MapSet(@, chatID, StateNone)],
                 Out(chatID, "WelcomeUpdated")),
            chatID)

\* configWriteOk: whether SetConfigValue succeeds
handleWelcomeMessageInput(w, msg, configWriteOk) ==
  LET chatID == msg.Chat
  IN IF ~configWriteOk THEN Send(w, Out(chatID, "SaveWelcomeFailed"))
     ELSE HandleStartCommand(
            Send([w EXCEPT
                    !.config = [@ EXCEPT !.welcome_message = msg.Text],
                    !.AdminStates = MapSet(@, chatID, StateNone)],
                 Out(chatID, "WelcomeUpdated")),
            chatID)

handleWelcomeButtonsInput(w, msg, configWriteOk) ==
  LET chatID == msg.Chat
  IN IF ~configWriteOk THEN Send(w, Out(chatID, "SaveButtonsFailed"))
     ELSE HandleStartCommand(
            Send([w EXCEPT
                    !.config = [@ EXCEPT !.welcome_buttons = msg.Text],
                    !.AdminStates = MapSet(@, chatID, StateNone)],
                 Out(chatID, "ButtonsUpdated")),
            chatID)

\* welcome.Manager.HandleAdminMessageInput
HandleAdminMessageInput(w, msg, configWriteOk) ==
  LET state == MapGet(w.AdminStates, msg.From, 0)
  IN IF ~MapHas(w.AdminStates, msg.From) THEN Result(FALSE, w)
     ELSE IF state = StateAwaitingWelcomeMessage
     THEN Result(TRUE, handleWelcomeMessageInput(w, msg, configWriteOk))
     ELSE IF state = StateAwaitingWelcomeButtons
     THEN Result(TRUE, handleWelcomeButtonsInput(w, msg, configWriteOk))
     ELSE Result(FALSE, w)

\* ------------------------------------------------------------------------
\* internal/cache: RedisClient
\* ------------------------------------------------------------------------

\* CheckAndAddUser: SAdd, whose error is dropped; addOk: whether it succeeds
CheckAndAddUser(w, userID, addOk) ==
  IF addOk THEN [w EXCEPT !.users = @ \cup {FormatInt(userID)}] ELSE w

\* AddBlockedUser, were a blocked user also struck from the known users
AddBlockedUserForgets(w, userID) ==
  [w EXCEPT !.blockedUsers = @ \cup {FormatInt(userID)},
            !.users = @ \ {FormatInt(userID)}]

AddBlockedUser(w, userID) ==
  [w EXCEPT !.blockedUsers = @ \cup {FormatInt(userID)}]

RemoveBlockedUser(w, userID) ==
  [w EXCEPT !.blockedUsers = @ \ {FormatInt(userID)}]

\* IsUserBlocked: the value the caller sees; a failed read yields false
IsUserBlocked(w, userID, readOk) ==
  readOk /\ FormatInt(userID) \in w.blockedUsers

\* ------------------------------------------------------------------------
\* package main: the dispatcher
\* ------------------------------------------------------------------------

UsersPerPage == 10

\* the update could not be parsed by strconv (the err of ParseInt / Atoi)
ParseIntFails(s) ==
  ~(AllDigits(s) \/ (s # <<>> /\ Head(s) \in {"-", "+"} /\ AllDigits(Tail(s))))

\* regexp \((\d+)\) FindStringSubmatch: the digits of the leftmost match,
\* the empty string when nothing matches
FirstParenDigits(s) ==
  LET Match(i, j) ==
        /\ s[i] = "(" /\ s[j] = ")" /\ j > i + 1
        /\ \A k \in (i + 1)..(j - 1) : IsDigit(s[k])
      starts == {i \in 1..Len(s)
                   : s[i] = "(" /\ \E j \in (i + 2)..Len(s) : Match(i, j)}
  IN IF starts = {} THEN <<>>
     ELSE LET i == CHOOSE x \in starts : \A y \in starts : x <= y
              j == CHOOSE y \in (i + 2)..Len(s) : Match(i, y)
          IN SubSeq(s, i + 1, j - 1)

\* handleAdminMessage, the reply branch: the user id parsed from the
\* replied-to message, 0 when none can be parsed
OriginalUserID(reply) ==
  LET textToParse == IF reply.Text # <<>> THEN reply.Text ELSE reply.Caption
  IN ParseInt(FirstParenDigits(textToParse))

\* the reply branch, were an answer without content passed on
AdminReplyPassesEmpty(w, msg, outcome) ==
  LET originalUserID == OriginalUserID(msg.ReplyToMessage[1])
  IN IF originalUserID = 0
     THEN Send(w, Out(forwardToAdminID, "ReplyNoUserID"))
     ELSE Send(Send(w, [Out(originalUserID, "AdminReply") EXCEPT
                          !.content = msg.Text]),
               Out(forwardToAdminID,
                   IF outcome = "ok" THEN "Replied" ELSE "ReplyFailed"))

\* handleAdminMessage, the reply branch; outcome: what API.Send returns
AdminReply(w, msg, outcome) ==
  LET originalUserID == OriginalUserID(msg.ReplyToMessage[1])
      kind == IF msg.Text # <<>> THEN "text"
              ELSE IF msg.Sticker # "" THEN "sticker"
              ELSE IF msg.Photo # "" THEN "photo"
              ELSE IF msg.Video # "" THEN "video"
              ELSE IF msg.Document # "" THEN "document"
              ELSE ""
  IN IF originalUserID = 0
     THEN Send(w, Out(forwardToAdminID, "ReplyNoUserID"))
     ELSE IF kind = ""
     THEN Send(w, Out(forwardToAdminID, "ReplyUnsupported"))
     ELSE Send(Send(w, [Out(originalUserID, "AdminReply") EXCEPT
                          !.content = msg.Text,
                          !.payload = [Message EXCEPT !.Type = kind]]),
               Out(forwardToAdminID,
                   IF outcome = "ok" THEN "Replied" ELSE "ReplyFailed"))

\* RedisClient.GetBlockedUserIDs when it succeeds
GetBlockedUserIDs(w, order) == SMembers(w.blockedUsers, order)

\* a clamp of the page that shows the last page for a page out of range
ClampPageToLast(page, totalPages) ==
  IF page < 1 \/ page > totalPages THEN totalPages ELSE page

\* handleListBlocked: the page shown for the page asked for
ClampPage(page, totalPages) ==
  IF page < 1 \/ page > totalPages THEN 1 ELSE page

\* a row of controls that holds the next control on every page
PaginationRowWithNext(page, totalPages) ==
  (IF page > 1
   THEN <<[Text |-> <<"prev">>,
           Data |-> <<"page", "_", "prev", "_">> \o FormatInt(page - 1)]>>
   ELSE <<>>)
  \o <<[Text |-> <<"next">>,
        Data |-> <<"page", "_", "next", "_">> \o FormatInt(page + 1)]>>

\* handleListBlocked: paginationRow
PaginationRow(page, totalPages) ==
  (IF page > 1
   THEN <<[Text |-> <<"prev">>,
           Data |-> <<"page", "_", "prev", "_">> \o FormatInt(page - 1)]>>
   ELSE <<>>)
  \o
  (IF page < totalPages
   THEN <<[Text |-> <<"next">>,
           Data |-> <<"page", "_", "next", "_">> \o FormatInt(page + 1)]>>
   ELSE <<>>)

\* handleListBlocked; readOk, order: whether GetBlockedUserIDs succeeds, and
\* the order of the slice it returns. The message holds the page shown (line),
\* the numbered lines of the list (content) and the keyboard
handleListBlocked(w, chatID, page0, readOk, order) ==
  LET blockedIDs == GetBlockedUserIDs(w, order)
      n == Len(blockedIDs)
      totalPages == (n + UsersPerPage - 1) \div UsersPerPage
      page == ClampPage(page0, totalPages)
      start == (page - 1) * UsersPerPage
      end == IF start + UsersPerPage > n THEN n ELSE start + UsersPerPage
      currentIDs == SubSeq(blockedIDs, start + 1, end)
      lines ==
        [i \in 1..Len(currentIDs) |->
           [index |-> start + i, id |-> currentIDs[i]]]
      unblockRows ==
        [k \in 1..Len(currentIDs) |->
           <<[Text |-> <<"unblock">>,
              Data |-> <<"unblock", "_">> \o currentIDs[k]]>>]
      paginationRow == PaginationRow(page, totalPages)
      keyboard ==
        IF totalPages > 1 /\ paginationRow # <<>>
        THEN Append(unblockRows, paginationRow) ELSE unblockRows
  IN IF ~readOk THEN Send(w, Out(chatID, "ListBlockedFailed"))
     ELSE IF n = 0 THEN Send(w, Out(chatID, "NoBlockedUsers"))
     ELSE Send(w, [Out(chatID, "BlockedList") EXCEPT
                     !.line = page,
                     !.content = lines,
                     !.payload = [Message EXCEPT !.Buttons = keyboard]])

\* handleUserStats; usersReadOk: the result of GetAllUserIDs
\* handleUserStats, were it to end the flow of the chat
handleUserStatsEndsFlow(w, chatID, usersReadOk) ==
  LET w1 == [w EXCEPT !.AdminStates = MapSet(@, chatID, StateNone)]
  IN IF ~usersReadOk THEN Send(w1, Out(chatID, "StatsFailed"))
     ELSE Send(w1, [Out(chatID, "Stats") EXCEPT
                      !.line = Cardinality(w.users),
                      !.content = <<Cardinality(w.users)
                                      - Cardinality(w.blockedUsers),
                                    Cardinality(w.blockedUsers)>>])

handleUserStats(w, chatID, usersReadOk) ==
  IF ~usersReadOk THEN Send(w, Out(chatID, "StatsFailed"))
  ELSE Send(w, [Out(chatID, "Stats") EXCEPT
                  !.line = Cardinality(w.users),
                  !.content = <<Cardinality(w.users) - Cardinality(w.blockedUsers),
                                Cardinality(w.blockedUsers)>>])

\* msg.IsCommand(): the text starts with a bot command
IsCommand(msg) == msg.Text # <<>> /\ Head(msg.Text) = "/"

\* msg.Command(): the command word
Command(msg) == IF Len(msg.Text) >= 2 THEN msg.Text[2] ELSE ""

\* the log line handleAdminStatefulMessage ends with
Routed(w, route) == [w EXCEPT !.route = route]

handleAdminStatefulMessage(w, msg, env) ==
  LET welcome == HandleAdminMessageInput(w, msg, env.configWriteOk)
      broadcast == HandleMessageInput(w, msg, env.sendOk)
  IN IF welcome.handled THEN Routed(welcome.w, "welcome")
     ELSE IF broadcast.handled THEN Routed(broadcast.w, "broadcast")
     ELSE Routed(w, "unhandled")

\* handleAdminMessage, were commands looked for before replies
handleAdminMessageCommandsFirst(w, msg, env) ==
  IF IsCommand(msg) /\ Command(msg) = "broadcast"
  THEN Routed(StartBroadcastBuilder(w, msg.Chat), "command")
  ELSE IF msg.ReplyToMessage # <<>> /\ forwardToAdminID = msg.Chat
  THEN Routed(AdminReply(w, msg, env.outcome), "reply")
  ELSE handleAdminStatefulMessage(w, msg, env)

handleAdminMessage(w, msg, env) ==
  IF msg.ReplyToMessage # <<>> /\ forwardToAdminID = msg.Chat
  THEN Routed(AdminReply(w, msg, env.outcome), "reply")
  ELSE IF IsCommand(msg)
  THEN CASE Command(msg) = "start" ->
              Routed(HandleStartCommand(w, msg.Chat), "command")
         [] Command(msg) = "setwelcome" ->
              Routed(StartSetWelcomeProcess(w, msg.Chat), "command")
         [] Command(msg) = "setbuttons" ->
              Routed(StartSetButtonsProcess(w, msg.Chat), "command")
         [] Command(msg) = "broadcast" ->
              Routed(StartBroadcastBuilder(w, msg.Chat), "command")
         [] Command(msg) = "listblocked" ->
              Routed(handleListBlocked(w, msg.Chat, 1, env.blockedListOk,
                                       env.order), "command")
         [] Command(msg) = "stats" ->
              Routed(handleUserStats(w, msg.Chat, env.usersReadOk), "command")
         [] OTHER -> handleAdminStatefulMessage(w, msg, env)
  ELSE handleAdminStatefulMessage(w, msg, env)

\* the text of the message placed in the forwarding chat, as Telegram shows
\* it: the caption with the user's first name and "(id)", then the text
ForwardCaption(msg) ==
  <<"from">> \o msg.FirstName \o <<"(">> \o FormatInt(msg.From) \o <<")">>

\* a relay that tells a blocked user so and relays the message all the same
handleUserMessageRelaysBlocked(w, msg, env) ==
  LET w0 == IF env.blockedReadOk2 /\ FormatInt(msg.From) \in w.blockedUsers
            THEN Send(w, Out(msg.Chat, "BlockedNotice"))
            ELSE w
  IN Routed(Send(Send(w0, Out(forwardToAdminID, "Forward")),
                 Out(msg.Chat, "Received")),
            "user-relay")

handleUserMessage(w, msg, env) ==
  IF ~env.blockedReadOk2 THEN Routed(w, "user-error")
  ELSE IF FormatInt(msg.From) \in w.blockedUsers
  THEN Routed(Send(w, Out(msg.Chat, "BlockedNotice")), "user-blocked")
  ELSE IF IsCommand(msg) /\ Command(msg) = "start"
  THEN Routed(HandleStartCommand(w, msg.Chat), "user-start")
  ELSE IF forwardToAdminID # 0
  THEN LET caption == ForwardCaption(msg)
           kind == IF msg.Text # <<>> THEN "text"
                   ELSE IF msg.Photo # "" THEN "photo"
                   ELSE IF msg.Sticker # "" THEN "sticker"
                   ELSE IF msg.Video # "" THEN "video"
                   ELSE IF msg.Document # "" THEN "document"
                   ELSE "unsupported"
           forward ==
             [Out(forwardToAdminID, "Forward") EXCEPT
                !.content = IF kind = "text" THEN caption \o <<"\n">> \o msg.Text
                            ELSE IF kind = "unsupported"
                            THEN caption \o <<"\n", "[unsupported]">>
                            ELSE caption,
                !.payload = [Message EXCEPT !.Type = kind]]
           w1 == IF kind = "sticker"
                 THEN Send(w, Out(forwardToAdminID, "ForwardSticker"))
                 ELSE w
       IN Routed(Send(Send(w1, forward), Out(msg.Chat, "Received")), "user-relay")
  ELSE Routed(Send(w, Out(msg.Chat, "Unroutable")), "user-unroutable")

handleMessage(w, msg, env) ==
  IF isAdmin(msg.From) THEN handleAdminMessage(w, msg, env)
  ELSE handleUserMessage(w, msg, env)

\* handleUpdate, case update.Message != nil
handleUpdateMessage(w, msg, env) ==
  LET isBlocked == IsUserBlocked(w, msg.From, env.blockedReadOk1)
  IN handleMessage(IF ~isBlocked
                   THEN CheckAndAddUser(w, msg.From, env.addOk) ELSE w,
                   msg, env)

\* handleCallbackQuery (and handleUpdate, case update.CallbackQuery != nil)
handleCallbackQuery(w, q, env) ==
  LET parts == Split(q.Data, "_")
  IN IF HasPrefix(q.Data, <<"unblock", "_">>)
     THEN IF Len(parts) # 2 \/ ParseIntFails(parts[2]) \/ ~env.storeWriteOk
          THEN Routed(w, "unblock-dropped")
          ELSE Routed(handleListBlocked(
                        RemoveBlockedUser(w, ParseInt(parts[2])),
                        q.Chat, 1, env.blockedListOk, env.order),
                      "unblock")
     ELSE IF HasPrefix(q.Data, <<"page", "_", "prev", "_">>)
             \/ HasPrefix(q.Data, <<"page", "_", "next", "_">>)
     THEN IF Len(parts) # 3 \/ ParseIntFails(parts[3])
          THEN Routed(w, "page-dropped")
          ELSE Routed(handleListBlocked(w, q.Chat, ParseInt(parts[3]),
                                        env.blockedListOk, env.order),
                      "page")
     ELSE IF HasPrefix(q.Data, <<"block", "_">>)
     THEN IF Len(parts) # 2 \/ ParseIntFails(parts[2]) \/ ~env.storeWriteOk
          THEN Routed(w, "block-dropped")
          ELSE Routed(AddBlockedUser(w, ParseInt(parts[2])), "block")
     ELSE LET builder == HandleCallbackQuery(w, q, env.sendOk, env.usersReadOk,
                                             env.order)
          IN IF builder.handled THEN Routed(builder.w, "builder")
             ELSE Routed(w, "ack")

\* ------------------------------------------------------------------------
\* The goroutine of executeBroadcast
\* ------------------------------------------------------------------------

NoGoroutine ==
  [i |-> 0, chatID |-> 0, broadcast |-> Message, allUserIDsStr |-> <<>>,
   pc |-> "free", count |-> 0, failed |-> 0, attempted |-> <<>>,
   summaries |-> <<>>,
   atRead |-> [users |-> {}, blockedUsers |-> {}]]

\* a loop that reads the draft of the chat anew for every recipient
LoopIterationReadsDraft(g, outcome) ==
  LET userID == ParseInt(g.allUserIDsStr[g.i])
      broadcast == MapGet(Broadcasts, g.chatID, Message)
      ok == ComplexMessageOK(userID, broadcast, outcome)
  IN IF userID # 0
     THEN [g EXCEPT
             !.broadcast = broadcast,
             !.attempted = @ \o [k \in 1..Len(ComplexMessage(userID, broadcast))
                                   |-> userID],
             !.count = IF ok THEN @ + 1 ELSE @,
             !.failed = IF ok THEN @ ELSE @ + 1,
             !.i = @ + 1]
     ELSE [g EXCEPT !.i = @ + 1]

\* a loop that gives up at the first delivery that fails
LoopIterationStopsOnError(g, outcome) ==
  LET userID == ParseInt(g.allUserIDsStr[g.i])
      ok == ComplexMessageOK(userID, g.broadcast, outcome)
  IN IF userID # 0
     THEN [g EXCEPT
             !.attempted = @ \o [k \in 1..Len(ComplexMessage(userID, g.broadcast))
                                   |-> userID],
             !.count = IF ok THEN @ + 1 ELSE @,
             !.failed = IF ok THEN @ ELSE @ + 1,
             !.i = IF ok THEN @ + 1 ELSE Len(g.allUserIDsStr) + 1]
     ELSE [g EXCEPT !.i = @ + 1]

\* one iteration of the loop over allUserIDsStr
LoopIteration(g, outcome) ==
  LET userID == ParseInt(g.allUserIDsStr[g.i])
      ok == ComplexMessageOK(userID, g.broadcast, outcome)
  IN IF userID # 0
     THEN [g EXCEPT
             !.attempted = @ \o [k \in 1..Len(ComplexMessage(userID, g.broadcast))
                                   |-> userID],
             !.count = IF ok THEN @ + 1 ELSE @,
             !.failed = IF ok THEN @ ELSE @ + 1,
             !.i = @ + 1]
     ELSE [g EXCEPT !.i = @ + 1]

\* a goroutine that ends without a summary
LoopDoneSilent(g) == [g EXCEPT !.pc = "done"]

\* after the loop: the summary for the initiating chat
LoopDone(g) ==
  [g EXCEPT !.summaries = Append(@, [to |-> g.chatID, count |-> g.count]),
            !.pc = "done"]

\* a goroutine delivers to its next recipient
FanoutDeliver(s) ==
  /\ fanouts[s].pc = "loop"
  /\ fanouts[s].i <= Len(fanouts[s].allUserIDsStr)
  /\ \E outcome \in {"ok", "blocked", "error"} :
       fanouts' = [fanouts EXCEPT ![s] = LoopIteration(@, outcome)]
  /\ UNCHANGED <<AdminStates, Broadcasts, BroadcastPromptMessageIDs, menus,
                 users, blockedUsers, config, sent, ev>>

\* a goroutine that, with its summary, ends the flow of every chat
FanoutSummaryEndsFlows(s) ==
  /\ fanouts[s].pc = "loop"
  /\ fanouts[s].i > Len(fanouts[s].allUserIDsStr)
  /\ fanouts' = [fanouts EXCEPT ![s] = LoopDone(@)]
  /\ AdminStates' = <<>>
  /\ UNCHANGED <<Broadcasts, BroadcastPromptMessageIDs, menus,
                 users, blockedUsers, config, sent, ev>>

\* a goroutine whose loop has ended sends the summary and ends
FanoutSummary(s) ==
  /\ fanouts[s].pc = "loop"
  /\ fanouts[s].i > Len(fanouts[s].allUserIDsStr)
  /\ fanouts' = [fanouts EXCEPT ![s] = LoopDone(@)]
  /\ UNCHANGED <<AdminStates, Broadcasts, BroadcastPromptMessageIDs, menus,
                 users, blockedUsers, config, sent, ev>>

\* Updates the bot is given
\* ------------------------------------------------------------------------

Hello == <<"H", "e", "l", "l", "o">>

\* the text of a command
Cmd(name) == <<"/", name>>

\* button specs an administrator may type: two in which every line is
\* accepted, then seven with a refused line
ButtonSpecs ==
  {<<"a", "|">> \o HTTP \o <<"x">>,
   <<" ", "a", " ", "|", " ", Backtick>> \o HTTPS \o <<"y", Backtick, " ",
      "\n", "\n", "b", "|">> \o HTTP \o <<"x", "\n", "c", "|">> \o HTTPS
      \o <<"y">>,
   <<"a">>,
   <<"|">> \o HTTP \o <<"x">>,
   <<"a", "|", " ">>,
   <<"a", "|", "f", "t", "p", ":", "/", "/", "x">>,
   <<"a", "|">> \o HTTP \o <<"x", "\n", "\n", " ", "b", " ", "|", " ", "x", " ">>,
   <<"a", "|", "b", "|">> \o HTTP \o <<"x", "\n", "c">>,
   <<"a", "|">> \o HTTP \o <<"x", "\n", "b", "\n", "c", "|", "x">>}

\* a message with no content of any kind
BlankMessage(from, chat) ==
  [Text |-> <<>>, Chat |-> chat, Photo |-> "", Video |-> "", From |-> from,
   ReplyToMessage |-> <<>>, Sticker |-> "", Document |-> "",
   FirstName |-> <<"Bob">>]

TextMessage(from, chat, text) == [BlankMessage(from, chat) EXCEPT !.Text = text]

\* the messages of a sender in a chat that carry something other than text
MediaMessages(from, chat) ==
  {[BlankMessage(from, chat) EXCEPT !.Photo = "photo1"],
   [BlankMessage(from, chat) EXCEPT !.Video = "video1"],
   [BlankMessage(from, chat) EXCEPT !.Sticker = "sticker1"],
   [BlankMessage(from, chat) EXCEPT !.Document = "document1"],
   BlankMessage(from, chat)}

\* what the store and the transport answer while one update is handled
Env ==
  [order |-> "ascending", sendOk |-> TRUE, outcome |-> "ok",
   usersReadOk |-> TRUE, configWriteOk |-> TRUE, addOk |-> TRUE,
   blockedListOk |-> TRUE, blockedReadOk2 |-> TRUE, blockedReadOk1 |-> TRUE,
   storeWriteOk |-> TRUE]

\* the answers that matter to an administrator's message
AdminEnvs(msg) ==
  IF msg.ReplyToMessage # <<>> /\ msg.Chat = forwardToAdminID
  THEN {[Env EXCEPT !.outcome = o] : o \in {"ok", "error"}}
  ELSE IF IsCommand(msg) /\ Command(msg) = "listblocked"
  THEN {[Env EXCEPT !.blockedListOk = a, !.order = o]
          : a \in BOOLEAN, o \in Orders}
  ELSE IF IsCommand(msg) /\ Command(msg) = "stats"
  THEN {[Env EXCEPT !.usersReadOk = a] : a \in BOOLEAN}
  ELSE IF IsCommand(msg)
          /\ Command(msg) \in {"start", "setwelcome", "setbuttons", "broadcast"}
  THEN {Env}
  ELSE {[Env EXCEPT !.sendOk = a, !.configWriteOk = b]
          : a \in BOOLEAN, b \in BOOLEAN}

\* the answers that matter to an ordinary user's message
UserEnvs ==
  {[Env EXCEPT !.blockedReadOk1 = a, !.blockedReadOk2 = b, !.addOk = c]
     : a \in BOOLEAN, b \in BOOLEAN, c \in BOOLEAN}

\* the answers that matter to a callback
CallbackEnvs(q) ==
  IF q.Data = BBuild(<<"send">>)
  THEN {[Env EXCEPT !.usersReadOk = a, !.order = o]
          : a \in BOOLEAN, o \in Orders}
  ELSE IF q.Data = BBuild(<<"skip", "_", "buttons">>)
  THEN {[Env EXCEPT !.sendOk = a] : a \in BOOLEAN}
  ELSE IF Head(q.Data) = "unblock"
  THEN {[Env EXCEPT !.storeWriteOk = a, !.blockedListOk = b, !.order = o]
          : a \in BOOLEAN, b \in BOOLEAN, o \in Orders}
  ELSE IF Head(q.Data) = "page"
  THEN {[Env EXCEPT !.blockedListOk = b, !.order = o]
          : b \in BOOLEAN, o \in Orders}
  ELSE IF Head(q.Data) = "block"
  THEN {[Env EXCEPT !.storeWriteOk = a] : a \in BOOLEAN}
  ELSE {Env}

\* the slot a goroutine started now would take, 0 when all are running
FreeSlot ==
  IF \E s \in 1..MaxFanouts : fanouts[s].pc # "loop"
  THEN CHOOSE s \in 1..MaxFanouts :
         fanouts[s].pc # "loop" /\ \A t \in 1..(s - 1) : fanouts[t].pc = "loop"
  ELSE 0

\* a goroutine has delivered to some but not all of its recipients
MidFlight(g) ==
  g.pc = "loop" /\ g.i > 1 /\ g.i <= Len(g.allUserIDsStr)

\* an update as Run takes it from the channel: a message or a callback query
UpdateOf(msgs, qs) == [Message |-> msgs, CallbackQuery |-> qs]

\* the handler of update has returned with w: its effects become the state
Handled(w, update) ==
  /\ ~w.overflow
  /\ w.spawned # <<>> => FreeSlot # 0
  /\ AdminStates' = w.AdminStates
  /\ Broadcasts' = w.Broadcasts
  /\ BroadcastPromptMessageIDs' = w.BroadcastPromptMessageIDs
  /\ menus' = w.menus
  /\ users' = w.users
  /\ blockedUsers' = w.blockedUsers
  /\ config' = w.config
  /\ sent' = w.sent
  /\ fanouts' = IF w.spawned # <<>>
                THEN [fanouts EXCEPT ![FreeSlot] = w.spawned[1]]
                ELSE fanouts
  /\ ev' = [update |-> update,
            route |-> w.route,
            usersRead |-> w.usersRead,
            spawned |-> IF w.spawned # <<>> THEN FreeSlot ELSE 0,
            midFlight |-> \E s \in 1..MaxFanouts : MidFlight(fanouts[s])]

\* an administrator sends one of msgs: a command, a reply or input of a flow
AdminMessageUpdate(msgs) ==
  \E msg \in msgs :
    \E env \in AdminEnvs(msg) :
      /\ isAdmin(msg.From)
      /\ Handled(handleUpdateMessage(World, msg, env), UpdateOf(<<msg>>, <<>>))

\* an ordinary user sends one of msgs while the store answers as in envs
UserMessageUpdate(msgs, envs) ==
  \E msg \in msgs, env \in envs :
    /\ ~isAdmin(msg.From)
    /\ Handled(handleUpdateMessage(World, msg, env), UpdateOf(<<msg>>, <<>>))

\* the id of the message a callback comes from: a menu of the chat that is
\* not deleted, or 0 for any other message that carries the button
PressableIDs(chat) == {0} \cup {m.id : m \in {x \in menus : x.chat = chat}}

CallbackQuery(from, chat, messageID, data) ==
  [Data |-> data, Chat |-> chat, MessageID |-> messageID, From |-> from]

\* the callbacks that can arrive from the chats with one of the payloads
Callbacks(chats, payloads) ==
  UNION {{CallbackQuery(AdminID, chat, id, data) : id \in PressableIDs(chat)}
           : chat \in chats, data \in payloads}

\* a button is pressed while SMembers answers in one of orders
CallbackUpdate(chats, payloads, orders) ==
  \E q \in Callbacks(chats, payloads) :
    \E env \in CallbackEnvs(q) :
      /\ env.order \in orders
      /\ Handled(handleCallbackQuery(World, q, env), UpdateOf(<<>>, <<q>>))

BlockData(u) == <<"block", "_">> \o FormatInt(u)
UnblockData(u) == <<"unblock", "_">> \o FormatInt(u)

\* goroutines run
FanoutStep ==
  \E s \in 1..MaxFanouts : FanoutDeliver(s) \/ FanoutSummary(s)

\* ------------------------------------------------------------------------
\* Specifications
\* ------------------------------------------------------------------------

\* NewBotInstance: empty maps, no goroutine, and an empty store
Init ==
  /\ AdminStates = <<>>
  /\ Broadcasts = <<>>
  /\ BroadcastPromptMessageIDs = <<>>
  /\ menus = {}
  /\ users = {}
  /\ blockedUsers = {}
  /\ config = NoConfig
  /\ fanouts = [s \in 1..MaxFanouts |-> NoGoroutine]
  /\ sent = <<>>
  /\ ev = [update |-> UpdateOf(<<>>, <<>>), route |-> "",
           usersRead |-> FALSE, spawned |-> 0, midFlight |-> FALSE]

\* --- Spec: a broadcast is written and sent while users write

\* what the administrator types to write a broadcast with a text
SendMessages ==
  {TextMessage(AdminID, AdminID, t) : t \in {Cmd("broadcast"), Hello}}

UserMessages == {TextMessage(u, u, Hello) : u \in UserIDs}

Next ==
  \/ AdminMessageUpdate(SendMessages)
  \/ UserMessageUpdate(UserMessages, {Env})
  \/ CallbackUpdate({AdminID}, {BBuild(<<"send">>)}, Orders)
  \/ FanoutStep

Spec == Init /\ [][Next]_vars

\* --- SpecLive: the same with one order of the known users, and every
\* --- goroutine that can take a step takes it in the end, as each call of
\* --- API.Send returns

NextLive ==
  \/ AdminMessageUpdate(SendMessages)
  \/ UserMessageUpdate(UserMessages, {Env})
  \/ CallbackUpdate({AdminID}, {BBuild(<<"send">>)}, {"ascending"})
  \/ FanoutStep

SpecLive ==
  /\ Init /\ [][NextLive]_vars
  /\ \A s \in 1..MaxFanouts : WF_vars(FanoutDeliver(s) \/ FanoutSummary(s))

\* --- SpecBlocked: a broadcast is written and sent while users write and
\* --- are blocked

NextBlocked ==
  \/ AdminMessageUpdate(SendMessages)
  \/ UserMessageUpdate(UserMessages, {Env})
  \/ CallbackUpdate({AdminID},
                    {BBuild(<<"send">>)} \cup {BlockData(u) : u \in UserIDs}, Orders)
  \/ FanoutStep

SpecBlocked == Init /\ [][NextBlocked]_vars

\* --- SpecSend: the builder with its menu, preview, send and cancel

NextSend ==
  \/ AdminMessageUpdate(SendMessages)
  \/ CallbackUpdate({AdminID},
                    {BBuild(<<"skip", "_", "media">>),
                     BBuild(<<"skip", "_", "buttons">>),
                     BBuild(<<"preview">>), BBuild(<<"send">>),
                     BBuild(<<"cancel">>)}, Orders)
  \/ FanoutStep

SpecSend == Init /\ [][NextSend]_vars

\* the messages with which the administrator submits a button spec
SubmittedSpecs == {TextMessage(AdminID, AdminID, t) : t \in ButtonSpecs}

\* --- SpecButtons: the button step of the builder, entered from a menu or
\* --- by skipping the media

NextButtons ==
  \/ AdminMessageUpdate(SubmittedSpecs)
  \/ CallbackUpdate({AdminID},
                    {BBuild(<<"set", "_", "buttons">>),
                     BBuild(<<"skip", "_", "media">>), BBuild(<<"cancel">>)}, Orders)

SpecButtons == Init /\ [][NextButtons]_vars

\* --- SpecRelay: users write, administrators block, unblock and answer

RelayMessages ==
  UNION {{TextMessage(u, u, Hello), TextMessage(u, u, Cmd("start")),
          [TextMessage(u, u, Hello) EXCEPT !.FirstName = <<"(", "9", "9", ")">>]}
           \cup MediaMessages(u, u) : u \in UserIDs}

\* the text and the caption that the forwarding chat shows for a message
\* placed there: a text message shows its text, a photo, video or document
\* its caption, a sticker neither
Shown(out) ==
  [Text |-> IF out.what = "Forward"
               /\ out.payload.Type \in {"text", "sticker", "unsupported"}
            THEN out.content ELSE <<>>,
   Caption |-> IF out.what = "Forward"
                  /\ out.payload.Type \in {"photo", "video", "document"}
               THEN out.content ELSE <<>>]

\* the messages an administrator answers to: those that the relay of a text
\* and of a sticker of a user who is not blocked places in the forwarding
\* chat, and a message that names no user
Forwarded ==
  LET relayed(msg) ==
        handleUserMessage([World EXCEPT !.blockedUsers = {}], msg, Env).sent
  IN UNION {{Shown(relayed(msg)[k])
               : k \in {j \in 1..Len(relayed(msg))
                          : relayed(msg)[j].to = forwardToAdminID}}
              : msg \in UNION {{TextMessage(u, u, Hello),
                                 [BlankMessage(u, u) EXCEPT
                                    !.Sticker = "sticker1"]} : u \in UserIDs}}
       \cup {[Text |-> Hello, Caption |-> <<>>]}

\* what an administrator sends in the forwarding chat: commands, input of a
\* flow, and answers, one of them with the text of a command
ModerationMessages ==
  {TextMessage(AdminID, forwardToAdminID, t)
     : t \in {Cmd("listblocked"), Cmd("stats"), Cmd("start"),
              Cmd("broadcast"), Cmd("setwelcome"), Hello}}
    \cup {[m EXCEPT !.ReplyToMessage = <<r>>]
             : m \in {TextMessage(AdminID, forwardToAdminID, Hello),
                      TextMessage(AdminID, forwardToAdminID, Cmd("broadcast"))}
                       \cup {[BlankMessage(AdminID, forwardToAdminID)
                                 EXCEPT !.Photo = "photo1"],
                              BlankMessage(AdminID, forwardToAdminID)},
               r \in Forwarded}

NextRelay ==
  \/ UserMessageUpdate(RelayMessages, UserEnvs)
  \/ AdminMessageUpdate(ModerationMessages)
  \/ CallbackUpdate({forwardToAdminID},
                    UNION {{BlockData(u), UnblockData(u)} : u \in UserIDs}
                      \cup {<<"page", "_", "next", "_", "1">>}, Orders)

SpecRelay == Init /\ [][NextRelay]_vars

\* --- SpecBuilder: a draft is written, edited section by section, skipped
\* --- through and dropped, and the administrator turns to the welcome flow

\* what the administrator sends into the private chat while building
BuilderMessages ==
  {TextMessage(AdminID, AdminID, t)
     : t \in {Cmd("broadcast"), Cmd("setwelcome"), Hello,
              <<"a", "|">> \o HTTP \o <<"x">>}}
    \cup {[BlankMessage(AdminID, AdminID) EXCEPT !.Video = "video1"],
          BlankMessage(AdminID, AdminID)}

NextBuilder ==
  \/ AdminMessageUpdate(BuilderMessages)
  \/ CallbackUpdate({AdminID},
                    {BBuild(<<"set", "_", "text">>),
                     BBuild(<<"set", "_", "media">>),
                     BBuild(<<"set", "_", "buttons">>),
                     BBuild(<<"skip", "_", "media">>),
                     BBuild(<<"skip", "_", "buttons">>),
                     BBuild(<<"cancel">>)}, Orders)

SpecBuilder == Init /\ [][NextBuilder]_vars

\* --- SpecWelcome: the administrator sets the welcome text and buttons and
\* --- writes in the private chat and in the forwarding chat

WelcomeMessages ==
  {TextMessage(AdminID, chat, t)
     : chat \in {AdminID, forwardToAdminID},
       t \in {Cmd("setwelcome"), Cmd("setbuttons"), Hello}}

NextWelcome == AdminMessageUpdate(WelcomeMessages)

SpecWelcome == Init /\ [][NextWelcome]_vars

\* --- SpecFanout: over a store that knows every user, broadcasts are
\* --- written, sent, begun anew and cancelled in the private chat while
\* --- goroutines deliver, and a broadcast is begun in the forwarding chat

\* NewBotInstance over a store that holds the known users
InitFanout ==
  /\ AdminStates = <<>>
  /\ Broadcasts = <<>>
  /\ BroadcastPromptMessageIDs = <<>>
  /\ menus = {}
  /\ users = {FormatInt(u) : u \in UserIDs}
  /\ blockedUsers = {}
  /\ config = NoConfig
  /\ fanouts = [s \in 1..MaxFanouts |-> NoGoroutine]
  /\ sent = <<>>
  /\ ev = [update |-> UpdateOf(<<>>, <<>>), route |-> "",
           usersRead |-> FALSE, spawned |-> 0, midFlight |-> FALSE]

NextFanout ==
  \/ AdminMessageUpdate(SendMessages
                          \cup {TextMessage(AdminID, AdminID, <<"B", "y", "e">>),
                                TextMessage(AdminID, forwardToAdminID,
                                            Cmd("broadcast"))})
  \/ CallbackUpdate({AdminID}, {BBuild(<<"send">>), BBuild(<<"cancel">>)},
                    {"ascending"})
  \/ FanoutStep

SpecFanout == InitFanout /\ [][NextFanout]_vars

\* a button is pressed by one of senders, who need not be an administrator:
\* handleUpdate hands every callback query to handleCallbackQuery
CallbackUpdateFrom(senders, chats, payloads, orders) ==
  \E from \in senders, p \in Callbacks(chats, payloads) :
    LET q == [p EXCEPT !.From = from]
    IN \E env \in CallbackEnvs(q) :
         /\ env.order \in orders
         /\ Handled(handleCallbackQuery(World, q, env), UpdateOf(<<>>, <<q>>))

\* --- SpecKnown: one user writes, with the store taking the sender or not,
\* --- and is blocked and unblocked, while a broadcast is written and sent
\* --- and goroutines deliver

NextKnown ==
  LET u == CHOOSE x \in UserIDs : \A y \in UserIDs : x <= y
  IN \/ AdminMessageUpdate(SendMessages)
     \/ UserMessageUpdate({TextMessage(u, u, Hello)},
                          {Env, [Env EXCEPT !.addOk = FALSE]})
     \/ CallbackUpdate({AdminID},
                       {BBuild(<<"send">>), BlockData(u), UnblockData(u)},
                       {"ascending"})
     \/ FanoutStep

SpecKnown == Init /\ [][NextKnown]_vars

\* --- SpecPress: the forwarding chat is a group; an administrator writes a
\* --- broadcast there, a user writes to the bot, and the buttons shown in
\* --- the group are pressed by the administrator and by a member who is not
\* --- one, while goroutines deliver
NextPress ==
  LET u == CHOOSE x \in UserIDs : \A y \in UserIDs : x <= y
  IN \/ AdminMessageUpdate({TextMessage(AdminID, forwardToAdminID, t)
                              : t \in {Cmd("broadcast"), Hello}})
     \/ UserMessageUpdate({TextMessage(u, u, Hello)}, {Env})
     \/ CallbackUpdateFrom({AdminID, u}, {forwardToAdminID},
                           {BBuild(<<"send">>), BBuild(<<"set", "_", "text">>),
                            BBuild(<<"cancel">>), BlockData(u), UnblockData(u)},
                           {"ascending"})
     \/ FanoutStep

SpecPress == Init /\ [][NextPress]_vars

\* --- SpecPaging: a block set of any size up to MaxBlocked is listed, paged
\* --- through and shortened from its end

\* NewBotInstance over a store that holds a block set
InitPaging ==
  /\ AdminStates = <<>>
  /\ Broadcasts = <<>>
  /\ BroadcastPromptMessageIDs = <<>>
  /\ menus = {}
  /\ users = {}
  /\ \E n \in 0..MaxBlocked :
       blockedUsers = {FormatInt(100 + k) : k \in 1..n}
  /\ config = NoConfig
  /\ fanouts = [s \in 1..MaxFanouts |-> NoGoroutine]
  /\ sent = <<>>
  /\ ev = [update |-> UpdateOf(<<>>, <<>>), route |-> "",
           usersRead |-> FALSE, spawned |-> 0, midFlight |-> FALSE]

NextPaging ==
  \/ AdminMessageUpdate({TextMessage(AdminID, AdminID, Cmd("listblocked"))})
  \/ CallbackUpdate({AdminID},
                    {<<"page", "_", dir, "_">> \o FormatInt(p)
                       : dir \in {"prev", "next"}, p \in 0..4}
                      \cup {UnblockData(100 + MaxBlocked)}, Orders)

SpecPaging == InitPaging /\ [][NextPaging]_vars

\* --- SpecParse: button specs of up to MaxLines lines are stored as the
\* --- welcome buttons and parsed for the keyboard of the welcome message

RECURSIVE SpecTexts(_)
\* the button specs of n lines, each line one with blanks and backticks
\* around its parts or one with a blank inside the backticks
SpecTexts(n) ==
  LET lines ==
        {<<" ", "b", " ", "|", " ", Backtick>> \o HTTPS
           \o <<"y", Backtick, " ">>,
         <<"c", "|", Backtick>> \o HTTP \o <<"x", " ", Backtick>>}
  IN IF n = 1 THEN lines
     ELSE {t \o <<"\n">> \o l : t \in SpecTexts(n - 1), l \in lines}

NextParse ==
  AdminMessageUpdate(
    {TextMessage(AdminID, AdminID, t)
       : t \in {Cmd("setbuttons"), Cmd("start")}
                \cup UNION {SpecTexts(n) : n \in 1..MaxLines}})

SpecParse == Init /\ [][NextParse]_vars

\* ------------------------------------------------------------------------
\* Properties
\* ------------------------------------------------------------------------

\* the draft of a chat; the zero Message when the chat has none
Draft(chatID) == MapGet(Broadcasts, chatID, Message)

\* a line of a button spec violates the format: it is not blank, and it has
\* no "|", or an empty label, or an empty URL, or a URL that, its backticks
\* trimmed, starts with neither http:// nor https://
Malformed(line) ==
  LET parts == SplitN2(TrimSpace(line))
  IN Len(parts) # 2 \/ TrimSpace(parts[1]) = <<>> \/ TrimSpace(parts[2]) = <<>>

TrimmedURL(line) == Trim(TrimSpace(SplitN2(TrimSpace(line))[2]), {Backtick})

Violating(line) ==
  /\ TrimSpace(line) # <<>>
  /\ \/ Malformed(line)
     \/ ~(HasPrefix(TrimmedURL(line), HTTP) \/ HasPrefix(TrimmedURL(line), HTTPS))

\* the 1-based number of the first violating line of a text, 0 if none
FirstViolating(text) ==
  LET lines == Split(text, "\n")
      bad == {k \in 1..Len(lines) : Violating(lines[k])}
  IN IF bad = {} THEN 0 ELSE CHOOSE k \in bad : \A j \in bad : k <= j

\* C1 as stated: an invalid button spec submitted in AwaitButtons leaves the
\* state and the draft's buttons as they were, and the error names the
\* number of the first violating line and the content of that line
C1_ErrorNamesLineContent ==
  \A msg \in SubmittedSpecs :
    \A env \in AdminEnvs(msg) :
      (/\ MapGet(AdminStates, msg.Chat, StateNone) = StateBroadcastAwaitButtons
       /\ FirstViolating(msg.Text) # 0) =>
        LET w == handleUpdateMessage(World, msg, env)
            k == FirstViolating(msg.Text)
            line == Split(msg.Text, "\n")[k]
        IN /\ MapGet(w.AdminStates, msg.Chat, StateNone)
                = StateBroadcastAwaitButtons
           /\ MapGet(w.Broadcasts, msg.Chat, Message).Buttons
                = Draft(msg.Chat).Buttons
           /\ Len(w.sent) = 1
           /\ w.sent[1].to = msg.Chat
           /\ w.sent[1].line = k
           /\ w.sent[1].content \in {line, TrimSpace(line)}

\* C1, amended: an invalid button spec submitted in AwaitButtons leaves the
\* state and the draft's buttons as they were, and the one error sent names
\* the number of the first violating line together with the trimmed line
\* when the line is malformed, and with the trimmed URL alone when the line
\* is well formed and its URL has a refused scheme
C1_ErrorNamesLineOrURL ==
  \A msg \in SubmittedSpecs :
    \A env \in AdminEnvs(msg) :
      (/\ MapGet(AdminStates, msg.Chat, StateNone) = StateBroadcastAwaitButtons
       /\ FirstViolating(msg.Text) # 0) =>
        LET w == handleUpdateMessage(World, msg, env)
            k == FirstViolating(msg.Text)
            line == Split(msg.Text, "\n")[k]
        IN /\ MapGet(w.AdminStates, msg.Chat, StateNone)
                = StateBroadcastAwaitButtons
           /\ MapGet(w.Broadcasts, msg.Chat, Message).Buttons
                = Draft(msg.Chat).Buttons
           /\ Len(w.sent) = 1
           /\ w.sent[1].to = msg.Chat
           /\ w.sent[1].line = k
           /\ Malformed(line) =>
                /\ w.sent[1].what = "ButtonFormatError"
                /\ w.sent[1].content = TrimSpace(line)
           /\ ~Malformed(line) =>
                /\ w.sent[1].what = "ButtonURLError"
                /\ w.sent[1].content = TrimmedURL(line)

\* a spec whose third line has a refused URL was submitted to a draft that
\* has buttons: the error names line 3 and the state is still AwaitButtons
C1_Witness ==
  /\ ev.route = "broadcast"
  /\ MapGet(AdminStates, AdminID, StateNone) = StateBroadcastAwaitButtons
  /\ Len(sent) = 1
  /\ sent[1].what = "ButtonURLError"
  /\ sent[1].line = 3
  /\ sent[1].content = <<"x">>
  /\ Draft(AdminID).Buttons # <<>>

\* the Send presses that can arrive from the administrator's chat
SendPresses == Callbacks({AdminID}, {BBuild(<<"send">>)})

\* C2: when Preview or Send is pressed while the chat's draft has neither
\* text nor media (or the chat has no draft), the only message sent is the
\* "empty content" notice to that chat, no goroutine is started, so no
\* delivery to a known user is attempted, and the known-user set is not read
C2_EmptyDraftRefused ==
  \A q \in Callbacks({AdminID},
                      {BBuild(<<"preview">>), BBuild(<<"send">>)}) :
    \A env \in CallbackEnvs(q) :
      ~HasContent(Draft(q.Chat)) =>
        LET w == handleCallbackQuery(World, q, env)
        IN /\ w.sent = <<Out(q.Chat, IF q.Data = BBuild(<<"preview">>)
                                     THEN "PreviewEmpty" ELSE "SendEmpty")>>
           /\ w.spawned = <<>>
           /\ ~w.usersRead

\* Send was pressed on an empty draft: the notice went out and nothing else
C2_Witness ==
  /\ ev.route = "builder"
  /\ sent = <<Out(AdminID, "SendEmpty")>>
  /\ ev.spawned = 0
  /\ ~ev.usersRead
  /\ \A s \in 1..MaxFanouts : fanouts[s].pc = "free"

\* the recipients a goroutine has attempted so far, in order
AttemptedIDs(g) == [k \in 1..Len(g.attempted) |-> FormatInt(g.attempted[k])]

\* the elements of a sequence
Range(seq) == {seq[k] : k \in 1..Len(seq)}

\* C3: the recipients a fan-out attempts are exactly the known-user set as
\* it was read when Send was processed: while it runs it has attempted a
\* duplicate-free part of that set, once it is done it has attempted every
\* member exactly once, and an ID that joined the set later is never among
\* them
C3_RecipientsAreSnapshot ==
  \A s \in 1..MaxFanouts :
    LET g == fanouts[s]
    IN g.pc # "free" =>
         /\ Range(AttemptedIDs(g)) \subseteq g.atRead.users
         /\ \A j, k \in 1..Len(g.attempted) :
              AttemptedIDs(g)[j] = AttemptedIDs(g)[k] => j = k
         /\ g.pc = "done" => Range(AttemptedIDs(g)) = g.atRead.users

\* a fan-out is done, a delivery of it failed, and a user who became known
\* after the read was not attempted
C3_Witness ==
  \E s \in 1..MaxFanouts :
    LET g == fanouts[s]
    IN /\ g.pc = "done"
       /\ g.count < Len(g.attempted)
       /\ \E id \in users : id \notin g.atRead.users

\* C4: once Send has started a fan-out, the chat's state reads None and the
\* chat has no draft and no prompt handle, from the return of the handler
\* on and however far the fan-out has got
C4_ClearedAfterSend ==
  ev.spawned # 0 =>
    LET chatID == fanouts[ev.spawned].chatID
    IN /\ MapGet(AdminStates, chatID, StateNone) = StateNone
       /\ ~MapHas(Broadcasts, chatID)
       /\ ~MapHas(BroadcastPromptMessageIDs, chatID)

\* the fan-out started by the last update is under way or done
C4_Witness ==
  /\ ev.spawned # 0
  /\ fanouts[ev.spawned].chatID = AdminID
  /\ fanouts[ev.spawned].broadcast.Text = Hello
  /\ fanouts[ev.spawned].i > 1
  /\ ~MapHas(Broadcasts, AdminID)

\* C5: no delivery of a fan-out is attempted to a user who was in the block
\* set when the recipients were read
C5_NoDeliveryToBlocked ==
  \A s \in 1..MaxFanouts :
    Range(AttemptedIDs(fanouts[s])) \cap fanouts[s].atRead.blockedUsers = {}

\* C9: when the read of the known-user list fails on Send, the administrator
\* is told that the broadcast failed and the chat's state and draft are left
\* as they were
C9_FailedReadKeepsDraft ==
  \A q \in SendPresses :
    \A env \in CallbackEnvs(q) :
      (HasContent(Draft(q.Chat)) /\ ~env.usersReadOk) =>
        LET w == handleCallbackQuery(World, q, env)
        IN /\ w.sent = <<Out(q.Chat, "BroadcastFailed")>>
           /\ w.spawned = <<>>
           /\ w.AdminStates = AdminStates
           /\ w.Broadcasts = Broadcasts

C6_ClearedStateIsDeadEnd ==
  \A msg \in SendMessages :
    \A env \in AdminEnvs(msg) :
      (/\ ~IsCommand(msg)
       /\ msg.ReplyToMessage = <<>>
       /\ MapHas(AdminStates, msg.Chat)
       /\ AdminStates[msg.Chat] = StateNone) =>
        LET w == handleUpdateMessage(World, msg, env)
        IN /\ w.route = "unhandled"
           /\ w.sent = <<>>
           /\ w.AdminStates = AdminStates
           /\ w.Broadcasts = Broadcasts

\* C7 as stated: a message of a blocked user makes the bot send exactly one
\* message, the blocked notice to that user
C7_ExactlyTheNotice ==
  \A msg \in RelayMessages :
    \A env \in UserEnvs :
      FormatInt(msg.From) \in blockedUsers =>
        handleUpdateMessage(World, msg, env).sent
          = <<Out(msg.Chat, "BlockedNotice")>>

\* C7, amended: a message of a blocked user, whatever its content, makes the
\* bot send nothing into the forwarding chat; when the read of the user's
\* block status in handleUserMessage succeeds the bot sends exactly one
\* message, the blocked notice to that user, and when that read fails it
\* sends nothing at all
C7_NoticeOrNothing ==
  \A msg \in RelayMessages :
    \A env \in UserEnvs :
      FormatInt(msg.From) \in blockedUsers =>
        LET w == handleUpdateMessage(World, msg, env)
        IN /\ \A k \in 1..Len(w.sent) : w.sent[k].to # forwardToAdminID
           /\ env.blockedReadOk2 => w.sent = <<Out(msg.Chat, "BlockedNotice")>>
           /\ ~env.blockedReadOk2 => w.sent = <<>>

\* a blocked user wrote and was sent the notice, and nothing else was sent
C7_Witness ==
  /\ ev.route = "user-blocked"
  /\ \E u \in UserIDs :
       /\ FormatInt(u) \in blockedUsers
       /\ sent = <<Out(u, "BlockedNotice")>>

\* C8: handling a message of a user who is in the block set leaves the
\* known-user set as it was
C8_BlockedSenderNotRecorded ==
  \A msg \in RelayMessages :
    \A env \in UserEnvs :
      FormatInt(msg.From) \in blockedUsers =>
        handleUpdateMessage(World, msg, env).users = users

\* what a goroutine has to show once it is done: every recipient of the
\* read attempted, one summary to the initiating chat, and in it the number
\* of sends that succeeded
Summed(g) ==
  /\ g.pc = "done"
  /\ Range(AttemptedIDs(g)) = g.atRead.users
  /\ Len(g.attempted) = Len(g.allUserIDsStr)
  /\ g.summaries = <<[to |-> g.chatID, count |-> Len(g.attempted) - g.failed]>>
  /\ g.count <= Cardinality(g.atRead.users)

\* C11: a fan-out that has started sends no summary while recipients are
\* left, and in the end it is done: it has attempted every recipient of its
\* read, failed sends included, and sent exactly one summary to the
\* initiating chat, whose count is the number of sends that succeeded and so
\* at most the size of the read
C11_SummaryInTheEnd ==
  /\ [](\A s \in 1..MaxFanouts :
          /\ fanouts[s].pc = "loop" => fanouts[s].summaries = <<>>
          /\ fanouts[s].pc = "done" => Summed(fanouts[s]))
  /\ \A s \in 1..MaxFanouts :
       (fanouts[s].pc = "loop") ~> Summed(fanouts[s])

\* a fan-out over two recipients is done: one send failed, the other
\* recipient was attempted all the same, and the summary reports one
C11_Witness ==
  \E s \in 1..MaxFanouts :
    /\ Summed(fanouts[s])
    /\ Len(fanouts[s].attempted) = 2
    /\ fanouts[s].failed = 1
    /\ fanouts[s].summaries = <<[to |-> AdminID, count |-> 1]>>

\* the last update handled was a press, in the administrator's private chat,
\* of the button that carries data
Pressed(data) ==
  /\ ev.update.CallbackQuery # <<>>
  /\ ev.update.CallbackQuery[1].Chat = AdminID
  /\ ev.update.CallbackQuery[1].Data = data


\* C12: a press of Skip-media, in any state and so in AwaitMedia or after
\* another Skip-media, leaves the chat in AwaitButtons with the media
\* reference and kind empty and the rest of the draft as it was; a press of
\* Skip-buttons, in any state and so after a Skip, leaves the chat in None
\* with no button rows and the rest of the draft as it was, and hands the
\* confirmation menu of that draft to the transport; Skip-buttons pressed
\* next after Skip-media ends in None with media and buttons empty and the
\* text untouched, and a Skip pressed again changes neither state nor draft
C12_SkipsEndInMenu ==
  [][
      /\ Pressed(<<"bbuild", "_", "skip", "_", "media">>)' =>
          /\ AdminStates'[AdminID] = StateBroadcastAwaitButtons
          /\ MapHas(Broadcasts', AdminID)
          /\ Broadcasts'[AdminID] =
               [Text |-> Draft(AdminID).Text, MediaID |-> "", Type |-> "",
                Buttons |-> Draft(AdminID).Buttons]
      /\ Pressed(<<"bbuild", "_", "skip", "_", "buttons">>)' =>
          /\ AdminStates'[AdminID] = StateNone
          /\ MapHas(Broadcasts', AdminID)
          /\ Broadcasts'[AdminID] =
               [Text |-> Draft(AdminID).Text,
                MediaID |-> Draft(AdminID).MediaID,
                Type |-> Draft(AdminID).Type, Buttons |-> <<>>]
          /\ \E k \in 1..Len(sent') :
               /\ sent'[k].to = AdminID
               /\ sent'[k].what = "BuilderMenu"
               /\ sent'[k].payload = Broadcasts'[AdminID]
      /\ Pressed(<<"bbuild", "_", "skip", "_", "media">>) /\ Pressed(<<"bbuild", "_", "skip", "_", "buttons">>)' =>
          /\ AdminStates'[AdminID] = StateNone
          /\ Broadcasts'[AdminID] =
               [Text |-> Draft(AdminID).Text, MediaID |-> "", Type |-> "",
                Buttons |-> <<>>]
      /\ \/ Pressed(<<"bbuild", "_", "skip", "_", "media">>) /\ Pressed(<<"bbuild", "_", "skip", "_", "media">>)'
         \/ Pressed(<<"bbuild", "_", "skip", "_", "buttons">>) /\ Pressed(<<"bbuild", "_", "skip", "_", "buttons">>)'
         => AdminStates' = AdminStates /\ Broadcasts' = Broadcasts
    ]_vars

\* Skip-buttons was pressed on a draft with a text: the chat is in None, the
\* text is kept, media and buttons are empty and the menu is on display
C12_Witness ==
  /\ Pressed(<<"bbuild", "_", "skip", "_", "buttons">>)
  /\ AdminStates[AdminID] = StateNone
  /\ Broadcasts[AdminID] =
       [Text |-> Hello, MediaID |-> "", Type |-> "", Buttons |-> <<>>]
  /\ sent[Len(sent)].what = "BuilderMenu"
  /\ MapGet(BroadcastPromptMessageIDs, AdminID, 0) # 0
  /\ \E m \in menus : m.id = BroadcastPromptMessageIDs[AdminID]

\* C13: a press of Cancel, whatever the state of the chat before it, leaves
\* the chat in None with no draft and no prompt handle, and starts no
\* fan-out: a goroutine that runs after it ran before it, for the same
\* recipients
C13_CancelClears ==
  [][Pressed(<<"bbuild", "_", "cancel">>)' =>
       /\ AdminStates'[AdminID] = StateNone
       /\ ~MapHas(Broadcasts', AdminID)
       /\ ~MapHas(BroadcastPromptMessageIDs', AdminID)
       /\ ev'.spawned = 0
       /\ \A s \in 1..MaxFanouts :
            fanouts'[s].pc = "loop" =>
              /\ fanouts[s].pc = "loop"
              /\ fanouts'[s].allUserIDsStr = fanouts[s].allUserIDsStr]_vars

\* Cancel was pressed while a draft was being written and a fan-out of an
\* earlier broadcast was under way
C13_Witness ==
  /\ Pressed(<<"bbuild", "_", "cancel">>)
  /\ AdminStates[AdminID] = StateNone
  /\ ~MapHas(Broadcasts, AdminID)
  /\ sent = <<Out(AdminID, "Cancelled")>>
  /\ \E s \in 1..MaxFanouts : fanouts[s].pc = "loop"

\* C14: input of the flow (a message of the private chat that is no command)
\* that arrives in AwaitText with an empty text, or in AwaitMedia with
\* neither a photo nor a video, is answered with the re-prompt of that state
\* and nothing else, and leaves the state of the chat and the drafts as they
\* were
C14_RejectedInputStays ==
  [][\A k \in 1..Len(ev'.update.Message) :
       LET msg == ev'.update.Message[k]
           state == MapGet(AdminStates, AdminID, StateNone)
           rejected ==
             \/ state = StateBroadcastAwaitText /\ msg.Text = <<>>
             \/ /\ state = StateBroadcastAwaitMedia
                /\ msg.Photo = "" /\ msg.Video = ""
       IN msg.Chat = AdminID /\ ~IsCommand(msg) /\ rejected =>
            /\ sent' = <<Out(AdminID,
                             IF state = StateBroadcastAwaitText
                             THEN "TextInvalid" ELSE "MediaInvalid")>>
            /\ AdminStates' = AdminStates
            /\ Broadcasts' = Broadcasts
            /\ BroadcastPromptMessageIDs' = BroadcastPromptMessageIDs]_vars

\* a message without text arrived while a new text was awaited for a draft
\* that had one: the re-prompt went out, the state and the draft are kept
C14_Witness ==
  /\ ev.update.Message # <<>>
  /\ ev.update.Message[1].Text = <<>>
  /\ MapGet(AdminStates, AdminID, StateNone) = StateBroadcastAwaitText
  /\ Draft(AdminID).Text = Hello
  /\ sent = <<Out(AdminID, "TextInvalid")>>

\* C15: a chat that has a draft is in None or in one of the three states of
\* the broadcast flow, never in a state of the welcome flow
C15_DraftOnlyInBroadcastFlow ==
  \A chatID \in DOMAIN Broadcasts :
    MapGet(AdminStates, chatID, StateNone) \in
      {StateNone, StateBroadcastAwaitText, StateBroadcastAwaitMedia,
       StateBroadcastAwaitButtons}

\* C16: of the builder menus sent to a chat at most one is not deleted
C16_AtMostOneMenu ==
  \A m1 \in menus, m2 \in menus : m1.chat = m2.chat => m1.id = m2.id

\* C17: when the welcome flow has taken a message and stored its text, the
\* stored value is that text and the state of the sender, the one consulted
\* to take the message, is None
C17_AcceptedInputClearsSender ==
  \A k \in 1..Len(ev.update.Message) :
    LET msg == ev.update.Message[k]
    IN /\ ev.route = "welcome" /\ sent[1].what = "WelcomeUpdated" =>
            /\ config.welcome_message = msg.Text
            /\ MapGet(AdminStates, msg.From, StateNone) = StateNone
       /\ ev.route = "welcome" /\ sent[1].what = "ButtonsUpdated" =>
            /\ config.welcome_buttons = msg.Text
            /\ MapGet(AdminStates, msg.From, StateNone) = StateNone

\* C18: a list of the n > 0 blocked users, asked for with page p (1 for the
\* command and after an unblock, the number in the payload for a page
\* control), shows page p when 1 <= p <= ceil(n/10) and page 1 otherwise; the
\* page holds, in the order of the list read, the entries (page-1)*10+1 to
\* min(page*10, n), each numbered with its index, and one unblock button for
\* each of them and no other
C18_PageShowsItsSlice ==
  ev.route \in {"command", "page", "unblock"} /\ sent # <<>> =>
    LET n == Cardinality(blockedUsers)
        totalPages == IF n % 10 = 0 THEN n \div 10 ELSE n \div 10 + 1
        q == ev.update.CallbackQuery
        p == IF q # <<>> /\ Head(q[1].Data) = "page"
             THEN ParseInt(Split(q[1].Data, "_")[3]) ELSE 1
        page == IF 1 <= p /\ p <= totalPages THEN p ELSE 1
        lo == (page - 1) * 10 + 1
        hi == IF page * 10 < n THEN page * 10 ELSE n
        m == sent[1]
        rows == m.payload.Buttons
    IN /\ Len(sent) = 1
       /\ m.what = "NoBlockedUsers" => n = 0
       /\ m.what = "BlockedList" =>
            /\ n > 0
            /\ m.line = page
            /\ Len(m.content) = hi - lo + 1
            /\ \A i \in 1..Len(m.content) : m.content[i].index = lo + i - 1
            /\ \E order \in Orders :
                 \A i \in 1..Len(m.content) :
                   m.content[i].id = SMembers(blockedUsers, order)[lo + i - 1]
            /\ Len(rows) >= Len(m.content)
            /\ \A i \in 1..Len(m.content) :
                 /\ Len(rows[i]) = 1
                 /\ rows[i][1].Data = <<"unblock", "_">> \o m.content[i].id
            /\ \A r \in (Len(m.content) + 1)..Len(rows) :
                 \A c \in 1..Len(rows[r]) : Head(rows[r][c].Data) # "unblock"

\* the control to page 3 was pressed on a list of more than twenty: page 3
\* is shown, and its first entry is numbered 21
C18_Witness ==
  /\ ev.route = "page"
  /\ ev.update.CallbackQuery[1].Data = <<"page", "_", "next", "_", "3">>
  /\ sent # <<>>
  /\ sent[1].what = "BlockedList"
  /\ sent[1].line = 3
  /\ sent[1].content[1].index = 21
  /\ Len(sent[1].payload.Buttons) = Len(sent[1].content) + 1

\* C19: a page shown holds the control to page-1 exactly when page > 1 and
\* the control to page+1 exactly when page < totalPages, and no other page
\* control, so none when there is one page; and a control of the page shown
\* last, pressed next, shows the page it names when the list can be read
C19_ControlsAndTargets ==
  /\ [](sent # <<>> /\ sent[1].what = "BlockedList" =>
          LET n == Cardinality(blockedUsers)
              totalPages == IF n % 10 = 0 THEN n \div 10 ELSE n \div 10 + 1
              page == sent[1].line
              rows == sent[1].payload.Buttons
              controls ==
                {d \in UNION {{rows[r][c].Data : c \in 1..Len(rows[r])}
                                : r \in 1..Len(rows)} : Head(d) = "page"}
          IN /\ <<"page", "_", "prev", "_">> \o FormatInt(page - 1) \in controls
                  <=> page > 1
             /\ <<"page", "_", "next", "_">> \o FormatInt(page + 1) \in controls
                  <=> page < totalPages
             /\ Cardinality(controls) =
                  (IF page > 1 THEN 1 ELSE 0)
                    + (IF page < totalPages THEN 1 ELSE 0)
             /\ totalPages = 1 => controls = {})
  /\ [][/\ sent # <<>> /\ sent[1].what = "BlockedList"
        /\ ev'.update.CallbackQuery # <<>>
        /\ \E r \in 1..Len(sent[1].payload.Buttons) :
             \E c \in 1..Len(sent[1].payload.Buttons[r]) :
               /\ sent[1].payload.Buttons[r][c].Data =
                    ev'.update.CallbackQuery[1].Data
               /\ Head(ev'.update.CallbackQuery[1].Data) = "page"
        /\ sent' # <<>> /\ sent'[1].what = "BlockedList"
        => sent'[1].line =
             ParseInt(Split(ev'.update.CallbackQuery[1].Data, "_")[3])]_vars

\* the control to page 2 of page 1 was pressed on a list of three pages:
\* page 2 is shown with both controls
C19_Witness ==
  /\ ev.route = "page"
  /\ ev.update.CallbackQuery[1].Data = <<"page", "_", "next", "_", "2">>
  /\ sent # <<>>
  /\ sent[1].what = "BlockedList"
  /\ sent[1].line = 2
  /\ Cardinality(blockedUsers) > 20
  /\ sent[1].payload.Buttons[11] =
       <<[Text |-> <<"prev">>, Data |-> <<"page", "_", "prev", "_", "1">>],
         [Text |-> <<"next">>, Data |-> <<"page", "_", "next", "_", "3">>]>>

\* the keyboards of the welcome messages the last update made the bot send:
\* rows that ParseButtons made of a stored button spec
ParsedRows ==
  {sent[k].payload.Buttons
     : k \in {i \in 1..Len(sent) : sent[i].what = "Welcome"}}

\* every row of rows holds two buttons, but for a last row of one, and
\* ParseButtons makes rows of the text that holds one line "label | url" for
\* each of their buttons, row after row
RoundTrips(rows) ==
  LET RECURSIVE Flat(_)
      Flat(rs) == IF rs = <<>> THEN <<>> ELSE Head(rs) \o Flat(Tail(rs))
      buttons == Flat(rows)
      serialized ==
        Join([k \in 1..Len(buttons) |->
                buttons[k].Text \o <<" ", "|", " ">> \o buttons[k].URL],
             "\n")
  IN /\ \A r \in 1..(Len(rows) - 1) : Len(rows[r]) = 2
     /\ rows # <<>> => Len(rows[Len(rows)]) \in {1, 2}
     /\ ParseButtons(serialized) = rows

\* C20 as stated: rows that ParseButtons made of a button spec, with no
\* empty label or URL, hold two buttons each but for a last row of one, and
\* are what ParseButtons makes of their lines "label | url"
C20_RoundTrip ==
  \A rows \in ParsedRows :
    (\A r \in 1..Len(rows) : \A c \in 1..Len(rows[r]) :
       rows[r][c].Text # <<>> /\ rows[r][c].URL # <<>>)
    => RoundTrips(rows)

\* C20: rows that ParseButtons made of a button spec, with no empty label or
\* URL and no URL that begins or ends with white space, hold two buttons each
\* but for a last row of one, and are what ParseButtons makes of their lines
\* "label | url"
C20_RoundTripOfTrimmedURLs ==
  \A rows \in ParsedRows :
    (\A r \in 1..Len(rows) : \A c \in 1..Len(rows[r]) :
       /\ rows[r][c].Text # <<>> /\ rows[r][c].URL # <<>>
       /\ TrimSpace(rows[r][c].URL) = rows[r][c].URL)
    => RoundTrips(rows)

\* a spec of three lines was stored: its keyboard has a row of two and a row
\* of one, no URL with white space around it, and it is made again from its
\* lines
C20_Witness ==
  \E rows \in ParsedRows :
    /\ Len(rows) = 2 /\ Len(rows[1]) = 2 /\ Len(rows[2]) = 1
    /\ rows[1][2] = [Text |-> <<"b">>, URL |-> HTTPS \o <<"y">>]
    /\ \A r \in 1..2 : \A c \in 1..Len(rows[r]) :
         TrimSpace(rows[r][c].URL) = rows[r][c].URL
    /\ RoundTrips(rows)

\* C21: input of the flow that is accepted moves the builder one step, in
\* order: /broadcast leaves the chat in AwaitText; a text that is not empty,
\* in AwaitText, is stored and leaves the chat in AwaitMedia; a photo or a
\* video, in AwaitMedia, is stored with its kind and leaves the chat in
\* AwaitButtons, as does Skip-media with both cleared; a button spec with no
\* violating line, in AwaitButtons, is stored as its rows and leaves the chat
\* in None with the confirmation menu handed to the transport, as does
\* Skip-buttons with no rows; and a message that is no command changes the
\* state of the builder by one of these three steps or not at all
C21_AcceptedInputAdvances ==
  [][
      /\ \A k \in 1..Len(ev'.update.Message) :
           LET msg == ev'.update.Message[k]
               state == MapGet(AdminStates, AdminID, StateNone)
               after == MapGet(AdminStates', AdminID, StateNone)
               builder == {StateBroadcastAwaitText, StateBroadcastAwaitMedia,
                           StateBroadcastAwaitButtons}
           IN msg.Chat = AdminID =>
                /\ msg.Text = Cmd("broadcast") =>
                     after = StateBroadcastAwaitText
                /\ /\ ~IsCommand(msg) /\ msg.Text # <<>>
                   /\ state = StateBroadcastAwaitText
                   => /\ after = StateBroadcastAwaitMedia
                      /\ Broadcasts'[AdminID] =
                           [Draft(AdminID) EXCEPT !.Text = msg.Text]
                /\ /\ ~IsCommand(msg) /\ (msg.Photo # "" \/ msg.Video # "")
                   /\ state = StateBroadcastAwaitMedia
                   => /\ after = StateBroadcastAwaitButtons
                      /\ Broadcasts'[AdminID] =
                           [Draft(AdminID) EXCEPT
                              !.MediaID = IF msg.Photo # "" THEN msg.Photo
                                          ELSE msg.Video,
                              !.Type = IF msg.Photo # "" THEN "photo"
                                       ELSE "video"]
                /\ /\ ~IsCommand(msg) /\ FirstViolating(msg.Text) = 0
                   /\ state = StateBroadcastAwaitButtons
                   => /\ after = StateNone
                      /\ Broadcasts'[AdminID] =
                           [Draft(AdminID) EXCEPT
                              !.Buttons = ParseButtons(msg.Text)]
                      /\ \E j \in 1..Len(sent') :
                           /\ sent'[j].to = AdminID
                           /\ sent'[j].what = "BuilderMenu"
                           /\ sent'[j].payload = Broadcasts'[AdminID]
                /\ ~IsCommand(msg) /\ state \in builder /\ after # state =>
                     <<state, after>> \in
                       {<<StateBroadcastAwaitText, StateBroadcastAwaitMedia>>,
                        <<StateBroadcastAwaitMedia,
                          StateBroadcastAwaitButtons>>,
                        <<StateBroadcastAwaitButtons, StateNone>>}
                /\ ~IsCommand(msg) /\ state \notin builder /\ after # state =>
                     after \notin builder
      /\ Pressed(<<"bbuild", "_", "skip", "_", "media">>)' =>
           /\ AdminStates'[AdminID] = StateBroadcastAwaitButtons
           /\ Broadcasts'[AdminID].MediaID = ""
           /\ Broadcasts'[AdminID].Type = ""
      /\ Pressed(<<"bbuild", "_", "skip", "_", "buttons">>)' =>
           /\ AdminStates'[AdminID] = StateNone
           /\ Broadcasts'[AdminID].Buttons = <<>>
    ]_vars

\* the flow was walked in order: the draft holds a text, a video and one row
\* with one button, the chat is back in None and the last input, the button
\* spec, was answered with the menu of that draft
C21_Witness ==
  /\ ev.update.Message # <<>>
  /\ ev.update.Message[1].Text = <<"a", "|">> \o HTTP \o <<"x">>
  /\ MapGet(AdminStates, AdminID, StateNone) = StateNone
  /\ Draft(AdminID).Text = Hello
  /\ Draft(AdminID).MediaID = "video1"
  /\ Draft(AdminID).Type = "video"
  /\ Len(Draft(AdminID).Buttons) = 1
  /\ \E j \in 1..Len(sent) :
       sent[j].what = "BuilderMenu" /\ sent[j].payload = Draft(AdminID)

\* C22: a message that the welcome flow takes, the sender being in
\* AwaitingMessage or AwaitingButtons, has one of two outcomes. Either the
\* write to the store succeeded: the text is stored under the key of that
\* state. Or it failed: the failure notice of that state, and nothing else,
\* is sent to the chat, the stored welcome text and button spec are as they
\* were, and the state of every chat is as it was, so that the sender's next
\* message is taken by the same handler
C22_FailedWriteKeepsAwaiting ==
  [][\A k \in 1..Len(ev'.update.Message) :
       LET msg == ev'.update.Message[k]
           state == MapGet(AdminStates, msg.From, StateNone)
           stored ==
             /\ config' =
                  IF state = StateAwaitingWelcomeMessage
                  THEN [config EXCEPT !.welcome_message = msg.Text]
                  ELSE [config EXCEPT !.welcome_buttons = msg.Text]
             /\ sent'[1] =
                  Out(msg.Chat, IF state = StateAwaitingWelcomeMessage
                                THEN "WelcomeUpdated" ELSE "ButtonsUpdated")
           failed ==
             /\ sent' =
                  <<Out(msg.Chat, IF state = StateAwaitingWelcomeMessage
                                  THEN "SaveWelcomeFailed"
                                  ELSE "SaveButtonsFailed")>>
             /\ config' = config
             /\ AdminStates' = AdminStates
       IN /\ ev'.route = "welcome" =>
               /\ state \in {StateAwaitingWelcomeMessage,
                              StateAwaitingWelcomeButtons}
               /\ stored \/ failed
          /\ /\ sent' # <<>>
             /\ sent'[1].what \in {"SaveWelcomeFailed", "SaveButtonsFailed"}
             => ev'.route = "welcome" /\ failed]_vars

\* the write of a new welcome text failed: the notice went out, nothing is
\* stored and the administrator is still asked for the text
C22_Witness ==
  /\ ev.route = "welcome"
  /\ ev.update.Message[1].Text = Hello
  /\ ev.update.Message[1].Chat = AdminID
  /\ sent = <<Out(AdminID, "SaveWelcomeFailed")>>
  /\ config = NoConfig
  /\ AdminStates[AdminID] = StateAwaitingWelcomeMessage

\* C23: a message of an administrator that answers a message in the
\* forwarding chat is handled as an answer to a user, whatever its text and
\* whatever the state of that chat and of its sender, and leaves the state
\* and the draft of every chat, every prompt handle and the stored welcome
\* text and button spec as they were
C23_ReplyIsNeverInput ==
  [][\A k \in 1..Len(ev'.update.Message) :
       LET msg == ev'.update.Message[k]
       IN /\ isAdmin(msg.From) /\ msg.Chat = forwardToAdminID
          /\ msg.ReplyToMessage # <<>>
          => /\ ev'.route = "reply"
             /\ AdminStates' = AdminStates
             /\ Broadcasts' = Broadcasts
             /\ BroadcastPromptMessageIDs' = BroadcastPromptMessageIDs
             /\ config' = config
             /\ \A j \in 1..Len(sent') :
                  sent'[j].what \in {"AdminReply", "Replied", "ReplyFailed",
                                     "ReplyNoUserID", "ReplyUnsupported"}]_vars

\* an answer with the text /broadcast was given in the forwarding chat while
\* that chat awaited the media of a broadcast: it was delivered as an answer
\* and the chat still awaits the media
C23_Witness ==
  /\ ev.route = "reply"
  /\ ev.update.Message[1].Text = Cmd("broadcast")
  /\ MapGet(AdminStates, forwardToAdminID, StateNone) = StateBroadcastAwaitMedia
  /\ Draft(forwardToAdminID).Text = Hello
  /\ \E u \in UserIDs :
       sent = <<[Out(u, "AdminReply") EXCEPT
                   !.content = Cmd("broadcast"),
                   !.payload = [Message EXCEPT !.Type = "text"]],
                Out(forwardToAdminID, "Replied")>>

\* C24: an answer in the forwarding chat to a message from whose text, or
\* caption when it has no text, no user id other than 0 is parsed, or an
\* answer that carries no text, sticker, photo, video or document, sends
\* nothing to any user and sends the forwarding chat one notice and nothing
\* else: the notice that no user id could be parsed in the first case, the
\* notice that the kind of message is not supported in the second
C24_FailedReplyIsOneNotice ==
  [][\A k \in 1..Len(ev'.update.Message) :
       LET msg == ev'.update.Message[k]
           target == msg.ReplyToMessage[1]
           textToParse ==
             IF target.Text # <<>> THEN target.Text ELSE target.Caption
           unparsed == ParseInt(FirstParenDigits(textToParse)) = 0
           empty == /\ msg.Text = <<>> /\ msg.Sticker = "" /\ msg.Photo = ""
                    /\ msg.Video = "" /\ msg.Document = ""
       IN /\ isAdmin(msg.From) /\ msg.Chat = forwardToAdminID
          /\ msg.ReplyToMessage # <<>>
          => IF unparsed
             THEN sent' = <<Out(forwardToAdminID, "ReplyNoUserID")>>
             ELSE IF empty
             THEN sent' = <<Out(forwardToAdminID, "ReplyUnsupported")>>
             ELSE \E j \in 1..Len(sent') : sent'[j].what = "AdminReply"]_vars

\* an answer without content was given to a forwarded message that names a
\* user: the one thing sent is the notice that the kind is not supported
C24_Witness ==
  /\ ev.route = "reply"
  /\ ev.update.Message[1] =
       [BlankMessage(AdminID, forwardToAdminID) EXCEPT
          !.ReplyToMessage = ev.update.Message[1].ReplyToMessage]
  /\ OriginalUserID(ev.update.Message[1].ReplyToMessage[1]) \in UserIDs
  /\ sent = <<Out(forwardToAdminID, "ReplyUnsupported")>>

\* C25: when the message of a user who is not blocked has been relayed,
\* every message that the relay placed in the forwarding chat, the sticker
\* and the placeholder of an unsupported kind among them, shows a text or a
\* caption whose first parenthesized integer is the id of that user, so that
\* an answer to it is delivered to that user and to no other
C25_ForwardedResolvesToSender ==
  \A k \in 1..Len(ev.update.Message) :
    ev.route = "user-relay" =>
      \A j \in 1..Len(sent) :
        sent[j].to = forwardToAdminID =>
          OriginalUserID(Shown(sent[j])) = ev.update.Message[k].From

\* C26: the handlers of the dispatcher itself leave the state and the draft
\* of every chat as they were: the message of an ordinary user, the commands
\* /start, /listblocked and /stats of an administrator, also in a chat whose
\* flow awaits input, an answer to a user in the forwarding chat, and a press
\* of an unblock, block or page button
C26_DispatcherKeepsStates ==
  [][LET own(msg) ==
           \/ ~isAdmin(msg.From)
           \/ msg.ReplyToMessage # <<>> /\ msg.Chat = forwardToAdminID
           \/ IsCommand(msg)
                /\ Command(msg) \in {"start", "listblocked", "stats"}
         ownPress(q) ==
           \/ HasPrefix(q.Data, <<"unblock", "_">>)
           \/ HasPrefix(q.Data, <<"block", "_">>)
           \/ HasPrefix(q.Data, <<"page", "_">>)
     IN \/ \E k \in 1..Len(ev'.update.Message) : own(ev'.update.Message[k])
        \/ \E k \in 1..Len(ev'.update.CallbackQuery) :
             ownPress(ev'.update.CallbackQuery[k])
        => AdminStates' = AdminStates /\ Broadcasts' = Broadcasts]_vars

\* /stats was answered in the forwarding chat while that chat awaited the
\* media of a broadcast whose text is written: it still awaits it
C26_Witness ==
  /\ ev.update.Message # <<>>
  /\ ev.update.Message[1].Text = Cmd("stats")
  /\ sent # <<>> /\ sent[1].what = "Stats"
  /\ MapGet(AdminStates, forwardToAdminID, StateNone) = StateBroadcastAwaitMedia
  /\ Draft(forwardToAdminID).Text = Hello
  /\ blockedUsers # {}

\* C27: a step of a goroutine of executeBroadcast, the delivery to one
\* recipient or the summary, taken at any point between the updates that
\* the bot handles, leaves the state, the draft and the prompt handle of
\* every chat other than the chat that pressed Send as they were
C27_FanoutKeepsOtherChats ==
  [][\A s \in 1..MaxFanouts :
       fanouts[s].pc = "loop" /\ fanouts'[s] # fanouts[s] =>
         \A chatID \in (adminIDs \cup {forwardToAdminID}) \ {fanouts[s].chatID} :
           /\ MapHas(AdminStates', chatID) = MapHas(AdminStates, chatID)
           /\ MapGet(AdminStates', chatID, 0) = MapGet(AdminStates, chatID, 0)
           /\ MapHas(Broadcasts', chatID) = MapHas(Broadcasts, chatID)
           /\ MapGet(Broadcasts', chatID, Message)
                = MapGet(Broadcasts, chatID, Message)
           /\ MapGet(BroadcastPromptMessageIDs', chatID, 0)
                = MapGet(BroadcastPromptMessageIDs, chatID, 0)]_vars

\* a goroutine started from the private chat has ended with its summary,
\* and the forwarding chat, which began a broadcast of its own, still
\* awaits the text and has its empty draft
C27_Witness ==
  \E s \in 1..MaxFanouts :
    /\ fanouts[s].pc = "done"
    /\ fanouts[s].chatID = AdminID
    /\ fanouts[s].attempted # <<>>
    /\ fanouts[s].summaries # <<>>
    /\ MapGet(AdminStates, forwardToAdminID, StateNone) = StateBroadcastAwaitText
    /\ MapHas(Broadcasts, forwardToAdminID)

\* C28: the command /broadcast, in whatever state the chat is and whatever
\* draft it has, leaves the chat in AwaitText with a draft whose text, media
\* reference, media kind and button rows are all empty
C28_BroadcastStartsAfresh ==
  [][\A k \in 1..Len(ev'.update.Message) :
       LET msg == ev'.update.Message[k]
       IN isAdmin(msg.From) /\ msg.Text = Cmd("broadcast")
          /\ msg.ReplyToMessage = <<>> =>
            /\ MapHas(AdminStates', msg.Chat)
            /\ AdminStates'[msg.Chat] = StateBroadcastAwaitText
            /\ MapHas(Broadcasts', msg.Chat)
            /\ Broadcasts'[msg.Chat] =
                 [Text |-> <<>>, MediaID |-> "", Type |-> "",
                  Buttons |-> <<>>]]_vars

\* /broadcast was handled in a chat that has the prompt handle of the menu
\* of an earlier draft: the chat awaits the text and the draft is empty
C28_Witness ==
  /\ ev.update.Message # <<>>
  /\ ev.update.Message[1].Text = Cmd("broadcast")
  /\ MapGet(AdminStates, AdminID, StateNone) = StateBroadcastAwaitText
  /\ MapHas(Broadcasts, AdminID)
  /\ Broadcasts[AdminID] = Message
  /\ MapGet(BroadcastPromptMessageIDs, AdminID, 0) # 0

\* C29: a chat whose state is AwaitText, AwaitMedia or AwaitButtons has a
\* draft, whatever was pressed before, a button of a menu or of a prompt
\* that outlived Cancel or Send included
C29_AwaitingHasDraft ==
  \A chatID \in DOMAIN AdminStates :
    AdminStates[chatID] \in {StateBroadcastAwaitText, StateBroadcastAwaitMedia,
                             StateBroadcastAwaitButtons}
      => MapHas(Broadcasts, chatID)

C32_OnlyAdminsChange ==
  [][\A k \in 1..Len(ev'.update.CallbackQuery) :
       LET q == ev'.update.CallbackQuery[k]
       IN /\ ~isAdmin(q.From)
          /\ \A s \in 1..MaxFanouts :
               fanouts'[s] = fanouts[s] \/ ev'.spawned = s
          => /\ blockedUsers' = blockedUsers
             /\ \A c \in DOMAIN AdminStates \cup DOMAIN AdminStates' :
                  MapGet(AdminStates', c, StateNone)
                    = MapGet(AdminStates, c, StateNone)
             /\ Broadcasts' = Broadcasts
             /\ ev'.spawned = 0]_vars

====
